---- MODULE Spec2Model ----
(***************************************************************************)
(* Model of the ESP32-C6 e-paper photo frame firmware                      *)
(* (src/epaper_photoframe.ino): the dual-controller panel driver           *)
(* (class EPaperDisplay), the image pipeline (displayImageFromSD) and the  *)
(* network-role resolution (establishNetwork), driven by setup() and       *)
(* loop().                                                                 *)
(*                                                                         *)
(* The panel driver is modelled at the level of single GPIO writes and     *)
(* single SPI bytes.  Every driver function is an operator that yields the *)
(* sequence of primitive statements the function executes, in source       *)
(* order; the variable todo holds the statements still to be executed (the *)
(* driver's continuation) and one action executes one primitive.           *)
(* waitUntilIdle, the only driver function whose control flow depends on   *)
(* an input, is stepped poll by poll.                                      *)
(***************************************************************************)
EXTENDS Integers, Sequences, FiniteSets, TLC

(***************************************************************************)
(* Bounds of the model.  The panel geometry, the busy ceiling and the      *)
(* width of unsigned long are scaled down; the structure of the code does  *)
(* not depend on their values.                                             *)
(***************************************************************************)
\* EPD_HALF_WIDTH (800 in the source), scaled.
EPD_HALF_WIDTH == 8
\* EPD_HEIGHT (1200 in the source), scaled.
EPD_HEIGHT == 2
\* The busy-wait ceiling in ms (30000 in the source, line 188), scaled.
BusyTimeoutMs == 30
\* Width in bits of unsigned long (32 on the target), scaled.
ULongBits == 9

\* REFRESH_INTERVAL in ms (24 hours in the source), scaled.
REFRESH_INTERVAL == 300

\* Chunks of one upload and uploads since boot that the model follows.
MaxChunks == 2
MaxUploads == 3

\* Program constants: the poll interval and the settle delay of
\* waitUntilIdle, and the default timeout_s of connectToWiFi.
BusyPollMs == 10
BusySettleMs == 200
CONNECT_TIMEOUT_S == 20

EPD_WIDTH == 2 * EPD_HALF_WIDTH
ULongMod == 2 ^ ULongBits
\* Unsigned long arithmetic: results are reduced modulo 2^width.
ULAdd(a, b) == (a + b) % ULongMod
\* Mutant: the difference taken in signed arithmetic, without the wrap.
ULSub_Signed(a, b) == a - b
ULSub(a, b) == (a - b) % ULongMod

LOW == "LOW"
HIGH == "HIGH"
\* Level of an output that has not been written since reset.
FLOATING == "FLOATING"

OutputPins == {"EPD_PWR", "EPD_CS_M", "EPD_CS_S", "EPD_DC", "EPD_RST"}
ChipSelects == {"EPD_CS_M", "EPD_CS_S"}

\* Panel command opcodes.
CMD_PANEL_SETTING == \H00
CMD_POWER_OFF == \H02
CMD_POWER_ON == \H04
CMD_DEEP_SLEEP == \H07
CMD_START_TRANSMISSION == \H10
CMD_REFRESH == \H12
CMD_RESOLUTION == \H61
CMD_VCOM == \H50

(***************************************************************************)
(* Primitive statements of the driver.                                     *)
(***************************************************************************)
digitalWrite(p, v) == [op |-> "pin", pin |-> p, v |-> v]
spiTransfer(data) == [op |-> "spi", b |-> data]
delay(ms) == [op |-> "delay", ms |-> ms]
\* A call of waitUntilIdle(); its loop is executed by the Wait actions below.
waitUntilIdle == [op |-> "wait"]
\* Entry to and return from a function (observation only).
Enter(fn, a) == [op |-> "call", f |-> fn, arg |-> a]
Leave(fn) == [op |-> "ret", f |-> fn]

\* The statements of n iterations of a loop whose i-th body is body(i).
RECURSIVE Repeat(_, _, _)
Repeat(body(_), from, to) ==
    IF from > to THEN <<>> ELSE body(from) \o Repeat(body, from + 1, to)

(***************************************************************************)
(* class EPaperDisplay                                                     *)
(***************************************************************************)
\* Mutant: the chip-select is left asserted after the byte.
sendCommand_NoDeselect(cs_pin, command) ==
    << digitalWrite("EPD_DC", LOW),
       digitalWrite(cs_pin, LOW),
       spiTransfer(command) >>

sendCommand(cs_pin, command) ==
    << digitalWrite("EPD_DC", LOW),
       digitalWrite(cs_pin, LOW),
       spiTransfer(command),
       digitalWrite(cs_pin, HIGH) >>

\* Mutant: the select is asserted before the DC line is set.
sendData_SelectFirst(cs_pin, data) ==
    << digitalWrite(cs_pin, LOW),
       digitalWrite("EPD_DC", HIGH),
       spiTransfer(data),
       digitalWrite(cs_pin, HIGH) >>

sendData(cs_pin, data) ==
    << digitalWrite("EPD_DC", HIGH),
       digitalWrite(cs_pin, LOW),
       spiTransfer(data),
       digitalWrite(cs_pin, HIGH) >>

\* (v >> 8) & 0xFF and v & 0xFF: the two bytes of a dimension.
HighByte(v) == (v \div 256) % 256
LowByte(v) == v % 256

initializeIC(cs_pin) ==
    sendCommand(cs_pin, CMD_REFRESH) \o <<delay(10)>>
    \o sendCommand(cs_pin, CMD_PANEL_SETTING)
    \o sendData(cs_pin, \H1F)
    \o sendCommand(cs_pin, CMD_RESOLUTION)
    \o sendData(cs_pin, HighByte(EPD_HALF_WIDTH))
    \o sendData(cs_pin, LowByte(EPD_HALF_WIDTH))
    \o sendData(cs_pin, HighByte(EPD_HEIGHT))
    \o sendData(cs_pin, LowByte(EPD_HEIGHT))
    \o sendCommand(cs_pin, CMD_VCOM)
    \o sendData(cs_pin, \H97)

begin ==
    << Enter("begin", <<>>),
       digitalWrite("EPD_PWR", LOW),
       digitalWrite("EPD_CS_M", HIGH),
       digitalWrite("EPD_CS_S", HIGH),
       Leave("begin") >>

reset ==
    << Enter("reset", <<>>),
       digitalWrite("EPD_PWR", HIGH), delay(10),
       digitalWrite("EPD_RST", HIGH), delay(20),
       digitalWrite("EPD_RST", LOW), delay(2),
       digitalWrite("EPD_RST", HIGH), delay(20),
       Leave("reset") >>

\* Mutant: a second wait for the busy line before the controllers are
\* configured.
init_WaitTwice ==
    <<Enter("init", <<>>)>>
    \o reset
    \o <<waitUntilIdle, waitUntilIdle>>
    \o initializeIC("EPD_CS_M")
    \o initializeIC("EPD_CS_S")
    \o <<Leave("init")>>

\* Mutant: one more wait for the busy line after the controllers are
\* configured.
init_WaitAfterConfig ==
    <<Enter("init", <<>>)>>
    \o reset
    \o <<waitUntilIdle>>
    \o initializeIC("EPD_CS_M")
    \o initializeIC("EPD_CS_S")
    \o <<waitUntilIdle>>
    \o <<Leave("init")>>

init ==
    <<Enter("init", <<>>)>>
    \o reset
    \o <<waitUntilIdle>>
    \o initializeIC("EPD_CS_M")
    \o initializeIC("EPD_CS_S")
    \o <<Leave("init")>>

\* Mutant: Master is told to refresh before Slave is powered on.
refresh_MasterEarly ==
    <<Enter("refresh", <<>>)>>
    \o sendCommand("EPD_CS_M", CMD_POWER_ON) \o <<waitUntilIdle>>
    \o sendCommand("EPD_CS_M", CMD_REFRESH)
    \o sendCommand("EPD_CS_S", CMD_POWER_ON) \o <<waitUntilIdle>>
    \o sendCommand("EPD_CS_S", CMD_REFRESH)
    \o <<delay(100), waitUntilIdle>>
    \o <<Leave("refresh")>>

refresh ==
    <<Enter("refresh", <<>>)>>
    \o sendCommand("EPD_CS_M", CMD_POWER_ON) \o <<waitUntilIdle>>
    \o sendCommand("EPD_CS_S", CMD_POWER_ON) \o <<waitUntilIdle>>
    \o sendCommand("EPD_CS_M", CMD_REFRESH)
    \o sendCommand("EPD_CS_S", CMD_REFRESH)
    \o <<delay(100), waitUntilIdle>>
    \o <<Leave("refresh")>>

\* Mutant: the panel is refreshed after each half is loaded.
clear_RefreshPerHalf ==
    LET white_m(i) == sendData("EPD_CS_M", \HFF)
        white_s(i) == sendData("EPD_CS_S", \HFF)
    IN  <<Enter("clear", <<>>)>>
        \o sendCommand("EPD_CS_M", CMD_START_TRANSMISSION)
        \o Repeat(white_m, 0, (EPD_HALF_WIDTH * EPD_HEIGHT) \div 8 - 1)
        \o refresh
        \o sendCommand("EPD_CS_S", CMD_START_TRANSMISSION)
        \o Repeat(white_s, 0, (EPD_HALF_WIDTH * EPD_HEIGHT) \div 8 - 1)
        \o refresh
        \o <<Leave("clear")>>

\* Mutant: the Slave half is filled with black pixels.
clear_BlackSlave ==
    LET white_m(i) == sendData("EPD_CS_M", \HFF)
        black_s(i) == sendData("EPD_CS_S", \H00)
    IN  <<Enter("clear", <<>>)>>
        \o sendCommand("EPD_CS_M", CMD_START_TRANSMISSION)
        \o Repeat(white_m, 0, (EPD_HALF_WIDTH * EPD_HEIGHT) \div 8 - 1)
        \o sendCommand("EPD_CS_S", CMD_START_TRANSMISSION)
        \o Repeat(black_s, 0, (EPD_HALF_WIDTH * EPD_HEIGHT) \div 8 - 1)
        \o refresh
        \o <<Leave("clear")>>

clear ==
    LET white_m(i) == sendData("EPD_CS_M", \HFF)
        white_s(i) == sendData("EPD_CS_S", \HFF)
    IN  <<Enter("clear", <<>>)>>
        \o sendCommand("EPD_CS_M", CMD_START_TRANSMISSION)
        \o Repeat(white_m, 0, (EPD_HALF_WIDTH * EPD_HEIGHT) \div 8 - 1)
        \o sendCommand("EPD_CS_S", CMD_START_TRANSMISSION)
        \o Repeat(white_s, 0, (EPD_HALF_WIDTH * EPD_HEIGHT) \div 8 - 1)
        \o refresh
        \o <<Leave("clear")>>

\* Mutant: the panel supply is switched off before the deep-sleep commands.
sleep_PowerDownEarly ==
    <<Enter("sleep", <<>>)>>
    \o sendCommand("EPD_CS_M", CMD_POWER_OFF) \o <<waitUntilIdle>>
    \o sendCommand("EPD_CS_S", CMD_POWER_OFF) \o <<waitUntilIdle>>
    \o <<digitalWrite("EPD_PWR", LOW)>>
    \o sendCommand("EPD_CS_M", CMD_DEEP_SLEEP)
    \o sendData("EPD_CS_M", \HA5)
    \o sendCommand("EPD_CS_S", CMD_DEEP_SLEEP)
    \o sendData("EPD_CS_S", \HA5)
    \o <<Leave("sleep")>>

sleep ==
    <<Enter("sleep", <<>>)>>
    \o sendCommand("EPD_CS_M", CMD_POWER_OFF) \o <<waitUntilIdle>>
    \o sendCommand("EPD_CS_S", CMD_POWER_OFF) \o <<waitUntilIdle>>
    \o sendCommand("EPD_CS_M", CMD_DEEP_SLEEP)
    \o sendData("EPD_CS_M", \HA5)
    \o sendCommand("EPD_CS_S", CMD_DEEP_SLEEP)
    \o sendData("EPD_CS_S", \HA5)
    \o <<digitalWrite("EPD_PWR", LOW)>>
    \o <<Leave("sleep")>>

\* A buffer pointer: NULL, or the bytes it points to.
NULL == [null |-> TRUE, bytes |-> <<>>]
Buffer(bytes) == [null |-> FALSE, bytes |-> bytes]

\* The guard of displayBitmap: imageData == NULL || dataSize == 0.
InvalidImage(imageData, dataSize) == imageData = NULL \/ dataSize = 0

\* Mutant: the split point one byte too far.
HalfDataSize_OffByOne(dataSize) == dataSize \div 2 + 1

\* Mutant: the split point rounded up instead of down.
HalfDataSize_RoundUp(dataSize) == (dataSize + 1) \div 2

\* int halfDataSize = dataSize / 2;
HalfDataSize(dataSize) == dataSize \div 2

\* Mutant: the panel is put to sleep before the image is refreshed.
displayBitmap_SleepFirst(imageData, dataSize) ==
    IF InvalidImage(imageData, dataSize)
    THEN << Enter("displayBitmap", <<imageData, dataSize>>),
            Leave("displayBitmap") >>
    ELSE LET halfDataSize == HalfDataSize(dataSize)
             master(i) == sendData("EPD_CS_M", imageData.bytes[i + 1])
             slave(i) == sendData("EPD_CS_S", imageData.bytes[i + 1])
         IN  <<Enter("displayBitmap", <<imageData, dataSize>>)>>
             \o init
             \o sendCommand("EPD_CS_M", CMD_START_TRANSMISSION)
             \o Repeat(master, 0, halfDataSize - 1)
             \o sendCommand("EPD_CS_S", CMD_START_TRANSMISSION)
             \o Repeat(slave, halfDataSize, dataSize - 1)
             \o sleep
             \o refresh
             \o <<Leave("displayBitmap")>>

displayBitmap(imageData, dataSize) ==
    IF InvalidImage(imageData, dataSize)
    THEN << Enter("displayBitmap", <<imageData, dataSize>>),
            Leave("displayBitmap") >>
    ELSE LET halfDataSize == HalfDataSize(dataSize)
             master(i) == sendData("EPD_CS_M", imageData.bytes[i + 1])
             slave(i) == sendData("EPD_CS_S", imageData.bytes[i + 1])
         IN  <<Enter("displayBitmap", <<imageData, dataSize>>)>>
             \o init
             \o sendCommand("EPD_CS_M", CMD_START_TRANSMISSION)
             \o Repeat(master, 0, halfDataSize - 1)
             \o sendCommand("EPD_CS_S", CMD_START_TRANSMISSION)
             \o Repeat(slave, halfDataSize, dataSize - 1)
             \o refresh
             \o sleep
             \o <<Leave("displayBitmap")>>

\* Mutant: the position is rendered into the frame.
displayText_Render(text, x, y) ==
    <<Enter("displayText", <<text, x, y>>)>>
    \o init
    \o clear
    \o sendCommand("EPD_CS_M", CMD_START_TRANSMISSION)
    \o sendData("EPD_CS_M", LowByte(y))
    \o refresh
    \o sleep
    \o <<Leave("displayText")>>

displayText(text, x, y) ==
    <<Enter("displayText", <<text, x, y>>)>>
    \o init
    \o clear
    \o refresh
    \o sleep
    \o <<Leave("displayText")>>

displayAccessPointInstructions(ip) ==
    <<Enter("displayAccessPointInstructions", <<ip>>)>>
    \o init
    \o clear
    \o displayText("Connect to WiFi", 100, 400)
    \o <<Leave("displayAccessPointInstructions")>>

displayStationConnectionInfo(ip) ==
    <<Enter("displayStationConnectionInfo", <<ip>>)>>
    \o init
    \o clear
    \o displayText("Connected!", 100, 400)
    \o <<Leave("displayStationConnectionInfo")>>

(***************************************************************************)
(* The environment: the SD card's files and the inputs of the handlers.    *)
(***************************************************************************)
\* Size in bytes of a full frame.
FrameSize == (EPD_WIDTH * EPD_HEIGHT) \div 8
\* A frame whose bytes identify their position.
PhotoBytes(n) == [i \in 1..n |-> (17 * i) % 256]
\* The files under /images: a frame of the exact size, a file of an odd,
\* wrong size, and an empty file.
SdCard ==
    ("photo.bin" :> PhotoBytes(FrameSize))
    @@ ("odd.bin" :> PhotoBytes(FrameSize + 1))
    @@ ("empty.bin" :> <<>>)
\* The image names a /display request may carry.
ImageArgs == DOMAIN SdCard \cup {"missing.bin"}
\* The ssid values a /save-wifi request may carry.
SsidArgs == {"", "HomeNet"}
PasswordArgs == {"", "secret"}
\* Values millis() may return when the loop reads it.
TimeSamples == {0, REFRESH_INTERVAL - 1, REFRESH_INTERVAL, ULongMod - 1}
\* Values millis() may return when waitUntilIdle captures startTime.
StartTimes == {0, ULongMod - BusyPollMs - 5}

\* Preferences namespace "photoframe": a key that was never put is absent.
NoKey == "<absent>"
getString(store, key, default) ==
    IF store[key] = NoKey THEN default ELSE store[key]

WL_CONNECTED == "WL_CONNECTED"
WL_DISCONNECTED == "WL_DISCONNECTED"
NETWORK_MODE_STA == "NETWORK_MODE_STA"
NETWORK_MODE_AP == "NETWORK_MODE_AP"

VARIABLES
    pin,                 \* level of each output line
    bus,                 \* bytes clocked on the SPI bus in the current job
    todo,                \* driver statements still to execute
    calls,               \* function entries and returns of the current job
    inBitmap,            \* control is inside displayBitmap
    bmWaits,             \* waitUntilIdle calls completed in this displayBitmap
    bmAllTimedOut,       \* each of them left the loop through the timeout break
    wpc,                 \* position inside waitUntilIdle
    startTime,           \* waitUntilIdle: startTime
    clock,               \* waitUntilIdle: last value of millis()
    busyState,           \* waitUntilIdle: busyState
    elapsed,             \* waitUntilIdle: elapsed
    pc,                  \* position in setup() / loop() / a handler
    prefs,               \* the persisted key/value store
    current_image,
    wifi_configured,
    access_point_active,
    last_refresh_time,
    mode,                \* setup(): NetworkMode mode
    elapsed_s,           \* connectToWiFi: elapsed
    wifiStatus,          \* last value WiFi.status() returned
    connectResult,       \* value connectToWiFi returned
    staAttempts,         \* WiFi.begin() calls since boot
    dnsStarted,          \* dnsServer.start() was called since boot
    serverStarted,       \* server.begin() was called since boot
    img,                 \* displayImageFromSD: filename
    imgCaller,           \* displayImageFromSD: the call site
    imgBuffer,           \* displayImageFromSD: imageBuffer
    imgFileSize,         \* displayImageFromSD: fileSize
    imgResult,           \* value displayImageFromSD returned
    currentTime,         \* loop(): currentTime
    httpStatus,          \* status of the last HTTP response sent
    uploadFile,          \* handleUpload: static File uploadFile
    upStatus,            \* an upload request is being received
    upPath,              \* handleUpload: path
    upOpened,            \* SD.open succeeded at the START of this upload
    upChunks,            \* WRITE events of this upload
    upWritten,           \* uploadFile.write calls of this upload
    upCount,             \* uploads started since boot
    upStale,             \* START found the previous upload's file still open
    upResponses          \* responses sent for the upload request

hw == <<pin, bus>>
drv == <<todo, calls, inBitmap, bmWaits, bmAllTimedOut>>
wait == <<wpc, startTime, clock, busyState, elapsed>>
net == <<wifi_configured, access_point_active, mode, elapsed_s, wifiStatus,
         connectResult, staAttempts, dnsStarted, serverStarted>>
imgv == <<img, imgCaller, imgBuffer, imgFileSize, imgResult>>
sys == <<pc, prefs, current_image, last_refresh_time, currentTime, httpStatus>>
upv == <<uploadFile, upStatus, upPath, upOpened, upChunks, upWritten, upCount,
         upStale, upResponses>>
vars == <<hw, drv, wait, net, imgv, sys, upv>>

\* The static File of handleUpload before its first use, and the upload
\* parser with no request in progress.
NoUpload ==
    /\ uploadFile = "invalid"
    /\ upStatus = "idle"
    /\ upPath = <<>>
    /\ upOpened = FALSE
    /\ upChunks = 0
    /\ upWritten = 0
    /\ upCount = 0
    /\ upStale = FALSE
    /\ upResponses = <<>>

\* The state of RAM and of the output lines after a reset of the chip.
RamInit ==
    /\ pin = [p \in OutputPins |-> FLOATING]
    /\ bus = <<>>
    /\ todo = <<>>
    /\ calls = <<>>
    /\ inBitmap = FALSE
    /\ bmWaits = 0
    /\ bmAllTimedOut = TRUE
    /\ wpc = "idle"
    /\ startTime = 0
    /\ clock = 0
    /\ busyState = HIGH
    /\ elapsed = 0
    /\ pc = "boot"
    /\ current_image = ""
    /\ wifi_configured = FALSE
    /\ access_point_active = FALSE
    /\ last_refresh_time = 0
    /\ mode = NETWORK_MODE_STA
    /\ elapsed_s = 0
    /\ wifiStatus = WL_DISCONNECTED
    /\ connectResult = FALSE
    /\ staAttempts = 0
    /\ dnsStarted = FALSE
    /\ serverStarted = FALSE
    /\ img = ""
    /\ imgCaller = ""
    /\ imgBuffer = NULL
    /\ imgFileSize = 0
    /\ imgResult = FALSE
    /\ currentTime = 0
    /\ httpStatus = 0
    /\ NoUpload

\* First power-up: nothing has been persisted yet.
Init ==
    /\ RamInit
    /\ prefs = [wifi_ssid |-> NoKey, wifi_pass |-> NoKey, current_img |-> NoKey]

(***************************************************************************)
(* Execution of the driver's primitive statements.                         *)
(***************************************************************************)
DriverIdle == todo = <<>> /\ wpc = "idle"
Next1 == IF todo = <<>> THEN [op |-> "none"] ELSE Head(todo)

\* digitalWrite(pin, level)
ExecDigitalWrite ==
    /\ Next1.op = "pin"
    /\ pin' = [pin EXCEPT ![Next1.pin] = Next1.v]
    /\ todo' = Tail(todo)
    /\ UNCHANGED <<bus, calls, inBitmap, bmWaits, bmAllTimedOut, wait, net, imgv, sys>>
    /\ UNCHANGED upv

\* epdSPI.transfer(data): the byte reaches every controller whose
\* chip-select is low, as a command or as data after the DC line.
ExecSpiTransfer ==
    /\ Next1.op = "spi"
    /\ bus' = Append(bus, [cs |-> {c \in ChipSelects : pin[c] = LOW},
                           dc |-> pin["EPD_DC"],
                           b |-> Next1.b])
    /\ todo' = Tail(todo)
    /\ UNCHANGED <<pin, calls, inBitmap, bmWaits, bmAllTimedOut, wait, net, imgv, sys>>
    /\ UNCHANGED upv

CallEvent(fn, a) == [ev |-> "call", f |-> fn, arg |-> a, at |-> Len(bus)]
RetEvent(fn, a) == [ev |-> "ret", f |-> fn, arg |-> a, at |-> Len(bus)]
\* A library call of interest that is not followed into (observation only).
NoteEvent(fn, a) == [ev |-> "note", f |-> fn, arg |-> a, at |-> Len(bus)]

\* delay(ms) called by a driver function; the call is noted in the event log.
ExecDelay ==
    /\ Next1.op = "delay"
    /\ calls' = Append(calls, NoteEvent("delay", <<Next1.ms>>))
    /\ todo' = Tail(todo)
    /\ UNCHANGED <<hw, inBitmap, bmWaits, bmAllTimedOut, wait, net, imgv, sys>>
    /\ UNCHANGED upv

\* Entry to a driver function.
ExecEnter ==
    /\ Next1.op = "call"
    /\ calls' = Append(calls, CallEvent(Next1.f, Next1.arg))
    /\ IF Next1.f = "displayBitmap"
       THEN inBitmap' = TRUE /\ bmWaits' = 0 /\ bmAllTimedOut' = TRUE
       ELSE UNCHANGED <<inBitmap, bmWaits, bmAllTimedOut>>
    /\ todo' = Tail(todo)
    /\ UNCHANGED <<hw, wait, net, imgv, sys>>
    /\ UNCHANGED upv

\* Return from a driver function.
ExecLeave ==
    /\ Next1.op = "ret"
    /\ calls' = Append(calls, RetEvent(Next1.f, <<>>))
    /\ inBitmap' = IF Next1.f = "displayBitmap" THEN FALSE ELSE inBitmap
    /\ todo' = Tail(todo)
    /\ UNCHANGED <<hw, bmWaits, bmAllTimedOut, wait, net, imgv, sys>>
    /\ UNCHANGED upv

(***************************************************************************)
(* waitUntilIdle(), one loop iteration per step.                           *)
(***************************************************************************)
\* Mutant: the ceiling tested one poll interval too late.
BusyTimedOut_Late(e) == e > BusyTimeoutMs + BusyPollMs

\* The timeout test of the loop body.
BusyTimedOut(e) == e > BusyTimeoutMs

\* startTime = millis(); busyState = digitalRead(EPD_BUSY).  The entry is
\* noted in the event log (the function logs it on entry).
WaitEnter ==
    /\ Next1.op = "wait"
    /\ wpc = "idle"
    /\ \E t \in StartTimes, level \in {LOW, HIGH} :
          /\ startTime' = t
          /\ clock' = t
          /\ busyState' = level
    /\ elapsed' = 0
    /\ wpc' = "loop"
    /\ calls' = Append(calls, NoteEvent("waitUntilIdle", <<>>))
    /\ UNCHANGED <<hw, todo, inBitmap, bmWaits, bmAllTimedOut, net, imgv, sys>>
    /\ UNCHANGED upv

\* Mutant: the timeout aborts the operation; nothing after the wait runs.
WaitPoll_AbortOnTimeout ==
    /\ wpc = "loop"
    /\ busyState = LOW
    /\ clock' = ULAdd(clock, BusyPollMs)
    /\ \E level \in {LOW, HIGH} : busyState' = level
    /\ elapsed' = ULSub(clock', startTime)
    /\ IF BusyTimedOut(elapsed')
       THEN /\ wpc' = "settle"
            /\ todo' = <<Head(todo)>>
       ELSE /\ wpc' = "loop"
            /\ UNCHANGED todo
    /\ UNCHANGED <<hw, calls, inBitmap, bmWaits, bmAllTimedOut, startTime,
                   net, imgv, sys>>
    /\ UNCHANGED upv

\* One iteration of while (busyState == LOW): delay, read, elapsed, break.
WaitPoll ==
    /\ wpc = "loop"
    /\ busyState = LOW
    /\ clock' = ULAdd(clock, BusyPollMs)
    /\ \E level \in {LOW, HIGH} : busyState' = level
    /\ elapsed' = ULSub(clock', startTime)
    /\ IF BusyTimedOut(elapsed')
       THEN wpc' = "settle"
       ELSE wpc' = "loop"
    /\ UNCHANGED <<hw, drv, startTime, net, imgv, sys>>
    /\ UNCHANGED upv

\* The loop condition is false: the busy line was released.
WaitReleased ==
    /\ wpc = "loop"
    /\ busyState # LOW
    /\ wpc' = "settle"
    /\ UNCHANGED <<hw, drv, startTime, clock, busyState, elapsed, net, imgv, sys>>
    /\ UNCHANGED upv

\* delay(200)
WaitSettle ==
    /\ wpc = "settle"
    /\ clock' = ULAdd(clock, BusySettleMs)
    /\ wpc' = "done"
    /\ UNCHANGED <<hw, drv, startTime, busyState, elapsed, net, imgv, sys>>
    /\ UNCHANGED upv

\* Return to the caller; the locals die and millis() is not read again
\* before the next wait captures a new startTime.
WaitReturn ==
    /\ wpc = "done"
    /\ todo' = Tail(todo)
    /\ bmWaits' = IF inBitmap THEN bmWaits + 1 ELSE bmWaits
    /\ bmAllTimedOut' = (bmAllTimedOut /\ (~inBitmap \/ BusyTimedOut(elapsed)))
    /\ wpc' = "idle"
    /\ startTime' = 0
    /\ clock' = 0
    /\ busyState' = HIGH
    /\ elapsed' = 0
    /\ UNCHANGED <<hw, calls, inBitmap, net, imgv, sys>>
    /\ UNCHANGED upv

Driver ==
    \/ ExecDigitalWrite
    \/ ExecSpiTransfer
    \/ ExecDelay
    \/ ExecEnter
    \/ ExecLeave
    \/ WaitEnter
    \/ WaitPoll
    \/ WaitReleased
    \/ WaitSettle
    \/ WaitReturn

(***************************************************************************)
(* displayImageFromSD(filename)                                            *)
(***************************************************************************)
\* Byte counts file.read() may return for a file of n bytes.
ReadCounts(n) == {n} \cup {k \in {0, n - 1} : 0 <= k /\ k < n}

\* The buffer after file.read() returned n: the first n bytes of the file,
\* the rest of the allocation still uninitialised.
UninitByte == 0 - 1
FileRead(content, n) ==
    [i \in 1..Len(content) |-> IF i <= n THEN content[i] ELSE UninitByte]

\* Mutant: a short read passes the check.
ReadComplete_Lenient(bytesRead, fileSize) == bytesRead <= fileSize

\* The integrity check: bytesRead == fileSize.
ReadComplete(bytesRead, fileSize) == bytesRead = fileSize

\* A call of displayImageFromSD(filename) from the call site caller; the
\* call event also records the persisted and the in-memory image name.
CallDisplayImageFromSD(filename, caller) ==
    /\ img' = filename
    /\ imgCaller' = caller
    /\ imgBuffer' = NULL
    /\ imgFileSize' = 0
    /\ imgResult' = FALSE
    /\ calls' = Append(calls, CallEvent("displayImageFromSD",
                               <<filename, prefs.current_img, current_image>>))
    /\ pc' = "img_open"

\* return false, after the library calls of the failing path
ImgFail(notes) ==
    /\ imgResult' = FALSE
    /\ calls' = calls \o notes
                      \o <<RetEvent("displayImageFromSD", <<FALSE>>)>>
    /\ pc' = "img_ret"

\* SD.open(path); file.size()
Img_Open ==
    /\ pc = "img_open"
    /\ \E opened \in BOOLEAN :
          IF opened /\ img \in DOMAIN SdCard
          THEN /\ imgFileSize' = Len(SdCard[img])
               /\ calls' = Append(calls, NoteEvent("SD.open", <<>>))
               /\ pc' = "img_malloc"
               /\ UNCHANGED imgResult
          ELSE /\ ImgFail(<<>>)
               /\ UNCHANGED imgFileSize
    /\ UNCHANGED <<hw, todo, inBitmap, bmWaits, bmAllTimedOut, wait, net,
                   img, imgCaller, imgBuffer, prefs, current_image,
                   last_refresh_time, currentTime, httpStatus>>
    /\ UNCHANGED upv

\* malloc(fileSize); malloc may fail, and malloc(0) may return NULL or not.
Img_Malloc ==
    /\ pc = "img_malloc"
    /\ \E allocated \in BOOLEAN :
          IF allocated
          THEN /\ imgBuffer' = Buffer(<<>>)
               /\ calls' = Append(calls, NoteEvent("malloc", <<>>))
               /\ pc' = "img_read"
               /\ UNCHANGED imgResult
          ELSE /\ ImgFail(<<NoteEvent("file.close", <<>>)>>)
               /\ UNCHANGED imgBuffer
    /\ UNCHANGED <<hw, todo, inBitmap, bmWaits, bmAllTimedOut, wait, net,
                   img, imgCaller, imgFileSize, prefs, current_image,
                   last_refresh_time, currentTime, httpStatus>>
    /\ UNCHANGED upv

\* Mutant: the short-read path returns without freeing the buffer.
Img_Read_LeakOnShortRead ==
    /\ pc = "img_read"
    /\ \E bytesRead \in ReadCounts(imgFileSize) :
          IF ~ReadComplete(bytesRead, imgFileSize)
          THEN /\ imgBuffer' = NULL
               /\ ImgFail(<<NoteEvent("file.close", <<>>)>>)
               /\ UNCHANGED todo
          ELSE /\ imgBuffer' = Buffer(FileRead(SdCard[img], bytesRead))
               /\ calls' = Append(calls, NoteEvent("file.close", <<>>))
               /\ todo' = displayBitmap(imgBuffer', imgFileSize)
               /\ pc' = "img_save"
               /\ UNCHANGED imgResult
    /\ UNCHANGED <<hw, inBitmap, bmWaits, bmAllTimedOut, wait, net,
                   img, imgCaller, imgFileSize, prefs, current_image,
                   last_refresh_time, currentTime, httpStatus>>
    /\ UNCHANGED upv

\* file.read(); file.close(); the size check, with free() when it fails;
\* epd.displayBitmap(...)
Img_Read ==
    /\ pc = "img_read"
    /\ \E bytesRead \in ReadCounts(imgFileSize) :
          IF ~ReadComplete(bytesRead, imgFileSize)
          THEN /\ imgBuffer' = NULL
               /\ ImgFail(<<NoteEvent("file.close", <<>>),
                            NoteEvent("free", <<>>)>>)
               /\ UNCHANGED todo
          ELSE /\ imgBuffer' = Buffer(FileRead(SdCard[img], bytesRead))
               /\ calls' = Append(calls, NoteEvent("file.close", <<>>))
               /\ todo' = displayBitmap(imgBuffer', imgFileSize)
               /\ pc' = "img_save"
               /\ UNCHANGED imgResult
    /\ UNCHANGED <<hw, inBitmap, bmWaits, bmAllTimedOut, wait, net,
                   img, imgCaller, imgFileSize, prefs, current_image,
                   last_refresh_time, currentTime, httpStatus>>
    /\ UNCHANGED upv

\* Mutant: the name is kept in memory only, not persisted.
Img_Save_NoPersist ==
    /\ pc = "img_save"
    /\ DriverIdle
    /\ imgBuffer' = NULL
    /\ current_image' = img
    /\ imgResult' = TRUE
    /\ calls' = calls \o <<NoteEvent("free", <<>>),
                            RetEvent("displayImageFromSD", <<TRUE>>)>>
    /\ pc' = "img_ret"
    /\ UNCHANGED <<hw, todo, inBitmap, bmWaits, bmAllTimedOut, wait, net,
                   img, imgCaller, imgFileSize, prefs,
                   last_refresh_time, currentTime, httpStatus>>
    /\ UNCHANGED upv

\* free(imageBuffer); prefs.putString("current_img", filename);
\* current_image = filename; return true
Img_Save ==
    /\ pc = "img_save"
    /\ DriverIdle
    /\ imgBuffer' = NULL
    /\ prefs' = [prefs EXCEPT !.current_img = img]
    /\ current_image' = img
    /\ imgResult' = TRUE
    /\ calls' = calls \o <<NoteEvent("free", <<>>),
                            RetEvent("displayImageFromSD", <<TRUE>>)>>
    /\ pc' = "img_ret"
    /\ UNCHANGED <<hw, todo, inBitmap, bmWaits, bmAllTimedOut, wait, net,
                   img, imgCaller, imgFileSize,
                   last_refresh_time, currentTime, httpStatus>>
    /\ UNCHANGED upv

(***************************************************************************)
(* connectToWiFi, startAccessPointNetwork, establishNetwork                *)
(***************************************************************************)
\* Mutant: one poll more than timeout_s.
ConnectKeepWaiting_OneMore(status, secs, timeout_s) ==
    status # WL_CONNECTED /\ secs <= timeout_s

\* The loop condition of connectToWiFi.
ConnectKeepWaiting(status, secs, timeout_s) ==
    status # WL_CONNECTED /\ secs < timeout_s

\* The value connectToWiFi returns, from the status read after the loop.
ConnectOutcome(status) == status = WL_CONNECTED

\* Mutant: an empty ssid counts as stored credentials.
HasCredentials_Always(saved_ssid) == TRUE

\* The test for stored credentials: saved_ssid.length() > 0.
HasCredentials(saved_ssid) == saved_ssid # ""

\* establishNetwork up to the test of saved_ssid; with a stored ssid,
\* connectToWiFi up to its loop: WiFi.mode(WIFI_STA); WiFi.begin(...).
EstablishNetwork_Read ==
    /\ pc = "net_read"
    /\ IF HasCredentials(getString(prefs, "wifi_ssid", ""))
       THEN /\ wifi_configured' = TRUE
            /\ staAttempts' = staAttempts + 1
            /\ elapsed_s' = 0
            /\ pc' = "connect_loop"
       ELSE /\ pc' = "net_ap"
            /\ UNCHANGED <<wifi_configured, staAttempts, elapsed_s>>
    /\ UNCHANGED <<hw, drv, wait, imgv, access_point_active, mode, wifiStatus,
                   connectResult, dnsStarted, serverStarted, prefs,
                   current_image, last_refresh_time, currentTime, httpStatus>>
    /\ UNCHANGED upv

\* while (WiFi.status() != WL_CONNECTED && elapsed < timeout_s)
\*     { delay(1000); elapsed++; }
ConnectToWiFi_Loop ==
    /\ pc = "connect_loop"
    /\ \E status \in {WL_CONNECTED, WL_DISCONNECTED} :
          /\ wifiStatus' = status
          /\ IF ConnectKeepWaiting(status, elapsed_s, CONNECT_TIMEOUT_S)
             THEN elapsed_s' = elapsed_s + 1 /\ pc' = "connect_loop"
             ELSE elapsed_s' = elapsed_s /\ pc' = "connect_check"
    /\ UNCHANGED <<hw, drv, wait, imgv, wifi_configured, access_point_active,
                   mode, connectResult, staAttempts, dnsStarted, serverStarted,
                   prefs, current_image, last_refresh_time, currentTime,
                   httpStatus>>
    /\ UNCHANGED upv

\* if (WiFi.status() == WL_CONNECTED) return true; else return false;
ConnectToWiFi_Return ==
    /\ pc = "connect_check"
    /\ \E status \in {WL_CONNECTED, WL_DISCONNECTED} :
          /\ wifiStatus' = status
          /\ connectResult' = ConnectOutcome(status)
    /\ pc' = "net_connected"
    /\ UNCHANGED <<hw, drv, wait, imgv, wifi_configured, access_point_active,
                   mode, elapsed_s, staAttempts, dnsStarted, serverStarted,
                   prefs, current_image, last_refresh_time, currentTime,
                   httpStatus>>
    /\ UNCHANGED upv

\* establishNetwork after connectToWiFi returned.
EstablishNetwork_Connected ==
    /\ pc = "net_connected"
    /\ IF connectResult
       THEN /\ access_point_active' = FALSE
            /\ mode' = NETWORK_MODE_STA
            /\ pc' = "setup_web"
            /\ UNCHANGED wifi_configured
       ELSE /\ wifi_configured' = FALSE
            /\ pc' = "net_ap"
            /\ UNCHANGED <<access_point_active, mode>>
    /\ elapsed_s' = 0
    /\ wifiStatus' = WL_DISCONNECTED
    /\ UNCHANGED <<hw, drv, wait, imgv, connectResult, staAttempts,
                   dnsStarted, serverStarted, prefs, current_image,
                   last_refresh_time, currentTime, httpStatus>>
    /\ UNCHANGED upv

\* Mutant: the access point is started without recording it in
\* access_point_active.
StartAccessPointNetwork_NoFlag ==
    /\ pc = "net_ap"
    /\ dnsStarted' = TRUE
    /\ wifi_configured' = FALSE
    /\ mode' = NETWORK_MODE_AP
    /\ pc' = "setup_web"
    /\ UNCHANGED <<hw, drv, wait, imgv, elapsed_s, wifiStatus, connectResult,
                   staAttempts, serverStarted, prefs, current_image,
                   last_refresh_time, currentTime, httpStatus,
                   access_point_active>>
    /\ UNCHANGED upv

\* networkIP = startAccessPointNetwork(); wifi_configured = false;
\* return NETWORK_MODE_AP
StartAccessPointNetwork ==
    /\ pc = "net_ap"
    /\ access_point_active' = TRUE
    /\ dnsStarted' = TRUE
    /\ wifi_configured' = FALSE
    /\ mode' = NETWORK_MODE_AP
    /\ pc' = "setup_web"
    /\ UNCHANGED <<hw, drv, wait, imgv, elapsed_s, wifiStatus, connectResult,
                   staAttempts, serverStarted, prefs, current_image,
                   last_refresh_time, currentTime, httpStatus>>
    /\ UNCHANGED upv

(***************************************************************************)
(* setup()                                                                 *)
(***************************************************************************)
\* Mutant: the saved image is displayed whatever the role.
AutoDisplayWanted_AnyRole(image, configured) == image # ""

\* The test that guards the automatic display of the saved image.
AutoDisplayWanted(image, configured) == image # "" /\ configured

\* prefs.begin(...); current_image = prefs.getString("current_img", "");
\* epd.begin()
Setup_LoadPrefs ==
    /\ pc = "boot"
    /\ current_image' = getString(prefs, "current_img", "")
    /\ todo' = begin
    /\ pc' = "setup_sd"
    /\ UNCHANGED <<hw, calls, inBitmap, bmWaits, bmAllTimedOut, wait, net, imgv,
                   prefs, last_refresh_time, currentTime, httpStatus>>
    /\ UNCHANGED upv

\* Mutant: after the error screen setup carries on instead of halting.
Setup_InitSD_Continue ==
    /\ pc = "setup_sd"
    /\ DriverIdle
    /\ \E sdOk \in BOOLEAN :
          IF sdOk
          THEN pc' = "net_read" /\ UNCHANGED todo
          ELSE /\ todo' = init \o clear \o displayText("ERROR: No SD Card", 100, 500)
               /\ pc' = "net_read"
    /\ UNCHANGED <<hw, calls, inBitmap, bmWaits, bmAllTimedOut, wait, net, imgv,
                   prefs, current_image, last_refresh_time, currentTime,
                   httpStatus>>
    /\ UNCHANGED upv

\* if (!initSDCard()) { epd.init(); epd.clear(); epd.displayText(...);
\*                      while (1) delay(1000); }
Setup_InitSD ==
    /\ pc = "setup_sd"
    /\ DriverIdle
    /\ \E sdOk \in BOOLEAN :
          IF sdOk
          THEN pc' = "net_read" /\ UNCHANGED todo
          ELSE /\ todo' = init \o clear \o displayText("ERROR: No SD Card", 100, 500)
               /\ pc' = "halt"
    /\ UNCHANGED <<hw, calls, inBitmap, bmWaits, bmAllTimedOut, wait, net, imgv,
                   prefs, current_image, last_refresh_time, currentTime,
                   httpStatus>>
    /\ UNCHANGED upv

\* while (1) delay(1000);
Setup_Halt ==
    /\ pc = "halt"
    /\ DriverIdle
    /\ UNCHANGED vars

\* setupWebServer()
Setup_WebServer ==
    /\ pc = "setup_web"
    /\ serverStarted' = TRUE
    /\ pc' = "setup_screen"
    /\ UNCHANGED <<hw, drv, wait, imgv, wifi_configured, access_point_active,
                   mode, elapsed_s, wifiStatus, connectResult, staAttempts,
                   dnsStarted, prefs, current_image, last_refresh_time,
                   currentTime, httpStatus>>
    /\ UNCHANGED upv

\* Mutant: the access-point instructions are shown whatever the role.
Setup_Screen_AlwaysAP ==
    /\ pc = "setup_screen"
    /\ todo' = displayAccessPointInstructions("softAPIP")
    /\ pc' = "setup_auto"
    /\ UNCHANGED <<hw, calls, inBitmap, bmWaits, bmAllTimedOut, wait, net, imgv,
                   prefs, current_image, last_refresh_time, currentTime,
                   httpStatus>>
    /\ UNCHANGED upv

\* if (mode == NETWORK_MODE_STA) displayStationConnectionInfo(networkIP);
\* else displayAccessPointInstructions(networkIP);
Setup_Screen ==
    /\ pc = "setup_screen"
    /\ todo' = IF mode = NETWORK_MODE_STA
               THEN displayStationConnectionInfo("localIP")
               ELSE displayAccessPointInstructions("softAPIP")
    /\ pc' = "setup_auto"
    /\ UNCHANGED <<hw, calls, inBitmap, bmWaits, bmAllTimedOut, wait, net, imgv,
                   prefs, current_image, last_refresh_time, currentTime,
                   httpStatus>>
    /\ UNCHANGED upv

\* Mutant: the startup display begins without waiting for the info screen
\* to finish.
Setup_AutoDisplay_NoWait ==
    /\ pc = "setup_auto"
    /\ IF AutoDisplayWanted(current_image, wifi_configured)
       THEN /\ todo' = init \o clear \o <<delay(1000)>>
            /\ pc' = "setup_auto_img"
       ELSE /\ pc' = "setup_done"
            /\ UNCHANGED todo
    /\ UNCHANGED <<hw, calls, inBitmap, bmWaits, bmAllTimedOut, wait, net, imgv,
                   prefs, current_image, last_refresh_time, currentTime,
                   httpStatus>>
    /\ UNCHANGED upv

\* if (current_image.length() > 0 && wifi_configured)
\*     { epd.init(); epd.clear(); delay(1000); ... }
Setup_AutoDisplay ==
    /\ pc = "setup_auto"
    /\ DriverIdle
    /\ IF AutoDisplayWanted(current_image, wifi_configured)
       THEN /\ todo' = init \o clear \o <<delay(1000)>>
            /\ pc' = "setup_auto_img"
       ELSE /\ pc' = "setup_done"
            /\ UNCHANGED todo
    /\ UNCHANGED <<hw, calls, inBitmap, bmWaits, bmAllTimedOut, wait, net, imgv,
                   prefs, current_image, last_refresh_time, currentTime,
                   httpStatus>>
    /\ UNCHANGED upv

\* displayImageFromSD(current_image)
Setup_AutoImage ==
    /\ pc = "setup_auto_img"
    /\ DriverIdle
    /\ CallDisplayImageFromSD(current_image, "setup")
    /\ UNCHANGED <<hw, todo, inBitmap, bmWaits, bmAllTimedOut, wait, net,
                   prefs, current_image, last_refresh_time, currentTime,
                   httpStatus>>
    /\ UNCHANGED upv

\* last_refresh_time = millis()
Setup_AfterAutoImage ==
    /\ pc = "img_ret"
    /\ imgCaller = "setup"
    /\ \E now \in TimeSamples : last_refresh_time' = now
    /\ pc' = "setup_done"
    /\ UNCHANGED <<hw, drv, wait, net, imgv, prefs, current_image,
                   currentTime, httpStatus>>
    /\ UNCHANGED upv

\* What dies when a job (setup, one HTTP request, one scheduled refresh)
\* is over: its record of bus traffic and calls, and the handlers' locals.
EndJob ==
    /\ bus' = <<>>
    /\ calls' = <<>>
    /\ bmWaits' = 0
    /\ bmAllTimedOut' = TRUE
    /\ img' = ""
    /\ imgCaller' = ""
    /\ imgBuffer' = NULL
    /\ imgFileSize' = 0
    /\ imgResult' = FALSE
    /\ httpStatus' = 0

\* setup() returns; the core starts calling loop().
Setup_Complete ==
    /\ pc = "setup_done"
    /\ EndJob
    /\ currentTime' = 0
    /\ pc' = "loop"
    /\ UNCHANGED <<pin, todo, inBitmap, wait, net, prefs, current_image,
                   last_refresh_time>>
    /\ UNCHANGED upv

(***************************************************************************)
(* loop() and the HTTP handlers                                            *)
(***************************************************************************)
\* Mutant: the refresh waits for strictly more than the interval.
RefreshDue_Strict(now, last) == ULSub(now, last) > REFRESH_INTERVAL

\* The test that guards the scheduled refresh.
RefreshDue(now, last) == ULSub(now, last) >= REFRESH_INTERVAL

\* Mutant: DNS requests are serviced whatever the role.
Loop_Dns_Always ==
    /\ pc = "loop"
    /\ calls' = Append(calls, NoteEvent("dnsServer.processNextRequest", <<>>))
    /\ pc' = "loop_http"
    /\ UNCHANGED <<hw, todo, inBitmap, bmWaits, bmAllTimedOut, wait, net, imgv,
                   prefs, current_image, last_refresh_time, currentTime,
                   httpStatus>>
    /\ UNCHANGED upv

\* if (!wifi_configured) dnsServer.processNextRequest();
Loop_Dns ==
    /\ pc = "loop"
    /\ calls' = IF ~wifi_configured
                THEN Append(calls, NoteEvent("dnsServer.processNextRequest", <<>>))
                ELSE calls
    /\ pc' = "loop_http"
    /\ UNCHANGED <<hw, todo, inBitmap, bmWaits, bmAllTimedOut, wait, net, imgv,
                   prefs, current_image, last_refresh_time, currentTime,
                   httpStatus>>
    /\ UNCHANGED upv

\* server.handleClient() with no request pending
Loop_NoRequest ==
    /\ pc = "loop_http"
    /\ pc' = "loop_served"
    /\ UNCHANGED <<hw, drv, wait, net, imgv, prefs, current_image,
                   last_refresh_time, currentTime, httpStatus>>
    /\ UNCHANGED upv

\* The request /save-wifi as the handler sees it: which parameters are
\* present, and their values.
SaveWiFiRequest(hasSsid, hasPassword, ssid, password) ==
    NoteEvent("handleSaveWiFi",
              <<hasSsid, hasPassword, IF hasSsid THEN ssid ELSE "",
                IF hasPassword THEN password ELSE "">>)

\* Mutant: saving credentials switches the running role, without restart.
HandleSaveWiFi_Live ==
    /\ pc = "loop_http"
    /\ \E hasSsid \in BOOLEAN, hasPassword \in BOOLEAN,
          ssid \in SsidArgs, password \in PasswordArgs :
          /\ calls' = Append(calls, SaveWiFiRequest(hasSsid, hasPassword,
                                                    ssid, password))
          /\ IF hasSsid /\ hasPassword
             THEN /\ prefs' = [prefs EXCEPT !.wifi_ssid = ssid,
                                            !.wifi_pass = password]
                  /\ httpStatus' = 200
                  /\ wifi_configured' = TRUE
                  /\ pc' = "loop_served"
             ELSE /\ httpStatus' = 400
                  /\ pc' = "loop_served"
                  /\ UNCHANGED <<prefs, wifi_configured>>
    /\ UNCHANGED <<hw, todo, inBitmap, bmWaits, bmAllTimedOut, wait, imgv,
                   current_image, last_refresh_time,
                   currentTime, access_point_active, mode, elapsed_s,
                   wifiStatus, connectResult, staAttempts, dnsStarted,
                   serverStarted>>
    /\ UNCHANGED upv

\* Mutant: the credentials are saved and the loop goes on without restart.
HandleSaveWiFi_NoRestart ==
    /\ pc = "loop_http"
    /\ \E hasSsid \in BOOLEAN, hasPassword \in BOOLEAN,
          ssid \in SsidArgs, password \in PasswordArgs :
          /\ calls' = Append(calls, SaveWiFiRequest(hasSsid, hasPassword,
                                                    ssid, password))
          /\ IF hasSsid /\ hasPassword
             THEN /\ prefs' = [prefs EXCEPT !.wifi_ssid = ssid,
                                            !.wifi_pass = password]
                  /\ httpStatus' = 200
                  /\ pc' = "loop_served"
             ELSE /\ httpStatus' = 400
                  /\ pc' = "loop_served"
                  /\ UNCHANGED prefs
    /\ UNCHANGED <<hw, todo, inBitmap, bmWaits, bmAllTimedOut, wait, net, imgv,
                   current_image, last_refresh_time, currentTime>>
    /\ UNCHANGED upv

\* Mutant: an empty ssid is answered like a missing parameter.
HandleSaveWiFi_RejectEmpty ==
    /\ pc = "loop_http"
    /\ \E hasSsid \in BOOLEAN, hasPassword \in BOOLEAN,
          ssid \in SsidArgs, password \in PasswordArgs :
          /\ calls' = Append(calls, SaveWiFiRequest(hasSsid, hasPassword,
                                                    ssid, password))
          /\ IF hasSsid /\ hasPassword /\ ssid # ""
             THEN /\ prefs' = [prefs EXCEPT !.wifi_ssid = ssid,
                                            !.wifi_pass = password]
                  /\ httpStatus' = 200
                  /\ pc' = "restart"
             ELSE /\ httpStatus' = 400
                  /\ pc' = "loop_served"
                  /\ UNCHANGED prefs
    /\ UNCHANGED <<hw, todo, inBitmap, bmWaits, bmAllTimedOut, wait, net, imgv,
                   current_image, last_refresh_time, currentTime>>
    /\ UNCHANGED upv

\* handleSaveWiFi() up to delay(1000)
HandleSaveWiFi ==
    /\ pc = "loop_http"
    /\ \E hasSsid \in BOOLEAN, hasPassword \in BOOLEAN,
          ssid \in SsidArgs, password \in PasswordArgs :
          /\ calls' = Append(calls, SaveWiFiRequest(hasSsid, hasPassword,
                                                    ssid, password))
          /\ IF hasSsid /\ hasPassword
             THEN /\ prefs' = [prefs EXCEPT !.wifi_ssid = ssid,
                                            !.wifi_pass = password]
                  /\ httpStatus' = 200
                  /\ pc' = "restart"
             ELSE /\ httpStatus' = 400
                  /\ pc' = "loop_served"
                  /\ UNCHANGED prefs
    /\ UNCHANGED <<hw, todo, inBitmap, bmWaits, bmAllTimedOut, wait, net, imgv,
                   current_image, last_refresh_time, currentTime>>
    /\ UNCHANGED upv

\* ESP.restart(): RAM and the output lines are reset, the store persists.
Restart ==
    /\ pc = "restart"
    /\ pin' = [p \in OutputPins |-> FLOATING]
    /\ bus' = <<>>
    /\ todo' = <<>>
    /\ calls' = <<>>
    /\ inBitmap' = FALSE
    /\ bmWaits' = 0
    /\ bmAllTimedOut' = TRUE
    /\ wpc' = "idle"
    /\ startTime' = 0
    /\ clock' = 0
    /\ busyState' = HIGH
    /\ elapsed' = 0
    /\ pc' = "boot"
    /\ current_image' = ""
    /\ wifi_configured' = FALSE
    /\ access_point_active' = FALSE
    /\ last_refresh_time' = 0
    /\ mode' = NETWORK_MODE_STA
    /\ elapsed_s' = 0
    /\ wifiStatus' = WL_DISCONNECTED
    /\ connectResult' = FALSE
    /\ staAttempts' = 0
    /\ dnsStarted' = FALSE
    /\ serverStarted' = FALSE
    /\ img' = ""
    /\ imgCaller' = ""
    /\ imgBuffer' = NULL
    /\ imgFileSize' = 0
    /\ imgResult' = FALSE
    /\ currentTime' = 0
    /\ httpStatus' = 0
    /\ uploadFile' = "invalid"
    /\ upStatus' = "idle"
    /\ upPath' = <<>>
    /\ upOpened' = FALSE
    /\ upChunks' = 0
    /\ upWritten' = 0
    /\ upCount' = 0
    /\ upStale' = FALSE
    /\ upResponses' = <<>>
    /\ UNCHANGED prefs

\* handleDisplay() up to the call of displayImageFromSD
HandleDisplay ==
    /\ pc = "loop_http"
    /\ \E hasImage \in BOOLEAN, filename \in ImageArgs :
          IF hasImage
          THEN /\ CallDisplayImageFromSD(filename, "handleDisplay")
               /\ UNCHANGED httpStatus
          ELSE /\ httpStatus' = 400
               /\ pc' = "loop_served"
               /\ UNCHANGED <<imgv, calls>>
    /\ UNCHANGED <<hw, todo, inBitmap, bmWaits, bmAllTimedOut, wait, net,
                   prefs, current_image, last_refresh_time, currentTime>>
    /\ UNCHANGED upv

\* handleDisplay() after displayImageFromSD returned
HandleDisplay_Respond ==
    /\ pc = "img_ret"
    /\ imgCaller = "handleDisplay"
    /\ httpStatus' = IF imgResult THEN 200 ELSE 500
    /\ pc' = "loop_served"
    /\ UNCHANGED <<hw, drv, wait, net, imgv, prefs, current_image,
                   last_refresh_time, currentTime>>
    /\ UNCHANGED upv

\* Mutant: the scheduled refresh runs whatever the role.
Loop_RefreshCheck_AnyRole ==
    /\ pc = "loop_served"
    /\ EndJob
    /\ IF current_image # ""
       THEN \E now \in TimeSamples :
               /\ currentTime' = now
               /\ IF RefreshDue(now, last_refresh_time)
                  THEN /\ todo' = init \o clear \o <<delay(1000)>>
                       /\ pc' = "loop_refresh_img"
                  ELSE /\ pc' = "loop_end"
                       /\ UNCHANGED todo
       ELSE /\ pc' = "loop_end"
            /\ UNCHANGED <<todo, currentTime>>
    /\ UNCHANGED <<pin, inBitmap, wait, net, prefs, current_image,
                   last_refresh_time>>
    /\ UNCHANGED upv

\* if (wifi_configured && current_image.length() > 0) {
\*     currentTime = millis();
\*     if (currentTime - last_refresh_time >= REFRESH_INTERVAL)
\*         { epd.init(); epd.clear(); delay(1000); ... } }
Loop_RefreshCheck ==
    /\ pc = "loop_served"
    /\ EndJob
    /\ IF wifi_configured /\ current_image # ""
       THEN \E now \in TimeSamples :
               /\ currentTime' = now
               /\ IF RefreshDue(now, last_refresh_time)
                  THEN /\ todo' = init \o clear \o <<delay(1000)>>
                       /\ pc' = "loop_refresh_img"
                  ELSE /\ pc' = "loop_end"
                       /\ UNCHANGED todo
       ELSE /\ pc' = "loop_end"
            /\ UNCHANGED <<todo, currentTime>>
    /\ UNCHANGED <<pin, inBitmap, wait, net, prefs, current_image,
                   last_refresh_time>>
    /\ UNCHANGED upv

\* displayImageFromSD(current_image)
Loop_RefreshImage ==
    /\ pc = "loop_refresh_img"
    /\ DriverIdle
    /\ CallDisplayImageFromSD(current_image, "loop")
    /\ UNCHANGED <<hw, todo, inBitmap, bmWaits, bmAllTimedOut, wait, net,
                   prefs, current_image, last_refresh_time, currentTime,
                   httpStatus>>
    /\ UNCHANGED upv

\* Mutant: the time of the refresh is recorded only when it succeeded.
Loop_AfterRefresh_OnlyOnSuccess ==
    /\ pc = "img_ret"
    /\ imgCaller = "loop"
    /\ last_refresh_time' = IF imgResult THEN currentTime ELSE last_refresh_time
    /\ pc' = "loop_end"
    /\ UNCHANGED <<hw, drv, wait, net, imgv, prefs, current_image,
                   currentTime, httpStatus>>
    /\ UNCHANGED upv

\* last_refresh_time = currentTime
Loop_AfterRefresh ==
    /\ pc = "img_ret"
    /\ imgCaller = "loop"
    /\ last_refresh_time' = currentTime
    /\ pc' = "loop_end"
    /\ UNCHANGED <<hw, drv, wait, net, imgv, prefs, current_image,
                   currentTime, httpStatus>>
    /\ UNCHANGED upv

\* delay(100); loop() returns
Loop_End ==
    /\ pc = "loop_end"
    /\ EndJob
    /\ currentTime' = 0
    /\ pc' = "loop"
    /\ UNCHANGED <<pin, todo, inBitmap, wait, net, prefs, current_image,
                   last_refresh_time>>
    /\ UNCHANGED upv

Next ==
    \/ Driver
    \/ Img_Open
    \/ Img_Malloc
    \/ Img_Read
    \/ Img_Save
    \/ EstablishNetwork_Read
    \/ ConnectToWiFi_Loop
    \/ ConnectToWiFi_Return
    \/ EstablishNetwork_Connected
    \/ StartAccessPointNetwork
    \/ Setup_LoadPrefs
    \/ Setup_InitSD
    \/ Setup_Halt
    \/ Setup_WebServer
    \/ Setup_Screen
    \/ Setup_AutoDisplay
    \/ Setup_AutoImage
    \/ Setup_AfterAutoImage
    \/ Setup_Complete
    \/ Loop_Dns
    \/ Loop_NoRequest
    \/ HandleSaveWiFi
    \/ Restart
    \/ HandleDisplay
    \/ HandleDisplay_Respond
    \/ Loop_RefreshCheck
    \/ Loop_RefreshImage
    \/ Loop_AfterRefresh
    \/ Loop_End

Spec == Init /\ [][Next]_vars

\* The processor always executes its next statement.
FairSpec == Spec /\ WF_vars(Next)

(***************************************************************************)
(* displayBitmap on its own: the driver has been set up by begin() and is  *)
(* handed a buffer of any length from 1 byte up to a few bytes more than a *)
(* full frame; only the driver runs.                                       *)
(***************************************************************************)
FrameLengths == 1..(FrameSize + 3)

BitmapInit ==
    /\ pin = [p \in OutputPins |->
                 IF p = "EPD_PWR" THEN LOW
                 ELSE IF p \in ChipSelects THEN HIGH ELSE FLOATING]
    /\ bus = <<>>
    /\ calls = <<>>
    /\ \E n \in FrameLengths :
          /\ imgBuffer = Buffer(PhotoBytes(n))
          /\ imgFileSize = n
          /\ todo = displayBitmap(Buffer(PhotoBytes(n)), n)
    /\ inBitmap = FALSE
    /\ bmWaits = 0
    /\ bmAllTimedOut = TRUE
    /\ wpc = "idle"
    /\ startTime = 0
    /\ clock = 0
    /\ busyState = HIGH
    /\ elapsed = 0
    /\ pc = "img_save"
    /\ current_image = ""
    /\ wifi_configured = FALSE
    /\ access_point_active = TRUE
    /\ last_refresh_time = 0
    /\ mode = NETWORK_MODE_AP
    /\ elapsed_s = 0
    /\ wifiStatus = WL_DISCONNECTED
    /\ connectResult = FALSE
    /\ staAttempts = 0
    /\ dnsStarted = TRUE
    /\ serverStarted = TRUE
    /\ img = "odd.bin"
    /\ imgCaller = "handleDisplay"
    /\ imgResult = FALSE
    /\ currentTime = 0
    /\ httpStatus = 0
    /\ NoUpload
    /\ prefs = [wifi_ssid |-> NoKey, wifi_pass |-> NoKey, current_img |-> NoKey]

BitmapNext == Driver

BitmapSpec == BitmapInit /\ [][BitmapNext]_vars

\* ---------------------------------------------------------------------
\* POST /upload: the upload callback and the request handler of the route.
\* File names are sequences of name parts, so that the suffix test and the
\* concatenations are computed as the code computes them.
UploadNames == {<<"a">>, <<"a", ".bin">>, <<"b", ".bin">>}

endsWith(filename, suffix) ==
    Len(filename) > 0 /\ filename[Len(filename)] = suffix

\* handleUpload(), UPLOAD_FILE_START: filename and path
UploadPath(filename) ==
    <<"/images/">> \o
    (IF ~endsWith(filename, ".bin") THEN filename \o <<".bin">> ELSE filename)

\* The device serving requests in the main loop, before any upload.
UploadInit ==
    /\ pin = [p \in OutputPins |->
                 IF p = "EPD_PWR" THEN LOW
                 ELSE IF p \in ChipSelects THEN HIGH ELSE FLOATING]
    /\ bus = <<>>
    /\ calls = <<>>
    /\ todo = <<>>
    /\ imgBuffer = NULL
    /\ imgFileSize = 0
    /\ inBitmap = FALSE
    /\ bmWaits = 0
    /\ bmAllTimedOut = TRUE
    /\ wpc = "idle"
    /\ startTime = 0
    /\ clock = 0
    /\ busyState = HIGH
    /\ elapsed = 0
    /\ pc = "loop_http"
    /\ current_image = ""
    /\ wifi_configured = FALSE
    /\ access_point_active = TRUE
    /\ last_refresh_time = 0
    /\ mode = NETWORK_MODE_AP
    /\ elapsed_s = 0
    /\ wifiStatus = WL_DISCONNECTED
    /\ connectResult = FALSE
    /\ staAttempts = 0
    /\ dnsStarted = TRUE
    /\ serverStarted = TRUE
    /\ img = ""
    /\ imgCaller = ""
    /\ imgResult = FALSE
    /\ currentTime = 0
    /\ httpStatus = 0
    /\ NoUpload
    /\ prefs = [wifi_ssid |-> NoKey, wifi_pass |-> NoKey, current_img |-> NoKey]

\* handleUpload(), UPLOAD_FILE_START: SD.open is called while the static
\* handle still holds whatever the previous upload left in it; SD.open
\* succeeds or fails.
Upload_Start ==
    /\ pc = "loop_http"
    /\ upStatus = "idle"
    /\ upCount < MaxUploads
    /\ \E filename \in UploadNames, openOk \in BOOLEAN :
          /\ upPath' = UploadPath(filename)
          /\ upOpened' = openOk
          /\ uploadFile' = IF openOk THEN "open" ELSE "invalid"
    /\ upStale' = (uploadFile = "open")
    /\ upStatus' = "receiving"
    /\ upChunks' = 0
    /\ upWritten' = 0
    /\ upCount' = upCount + 1
    /\ upResponses' = <<>>
    /\ UNCHANGED <<hw, drv, wait, net, imgv, sys>>

\* handleUpload(), UPLOAD_FILE_WRITE
Upload_Write ==
    /\ pc = "loop_http"
    /\ upStatus = "receiving"
    /\ upChunks < MaxChunks
    /\ upChunks' = upChunks + 1
    /\ upWritten' = IF uploadFile = "open" THEN upWritten + 1 ELSE upWritten
    /\ UNCHANGED <<uploadFile, upStatus, upPath, upOpened, upCount, upStale,
                   upResponses>>
    /\ UNCHANGED <<hw, drv, wait, net, imgv, sys>>

\* handleUpload(), UPLOAD_FILE_END
Upload_End ==
    /\ pc = "loop_http"
    /\ upStatus = "receiving"
    /\ IF uploadFile = "open"
       THEN /\ uploadFile' = "invalid"
            /\ upResponses' = Append(upResponses, 200)
       ELSE /\ upResponses' = Append(upResponses, 500)
            /\ UNCHANGED uploadFile
    /\ upStatus' = "ended"
    /\ UNCHANGED <<upPath, upOpened, upChunks, upWritten, upCount, upStale>>
    /\ UNCHANGED <<hw, drv, wait, net, imgv, sys>>

\* handleUpload(), UPLOAD_FILE_ABORTED: no branch of the callback matches,
\* and the request handler of the route is not run for a failed request.
Upload_Aborted ==
    /\ pc = "loop_http"
    /\ upStatus = "receiving"
    /\ upStatus' = "idle"
    /\ UNCHANGED <<uploadFile, upPath, upOpened, upChunks, upWritten, upCount,
                   upStale, upResponses>>
    /\ UNCHANGED <<hw, drv, wait, net, imgv, sys>>

\* The request handler of the /upload route: server.send(200)
Upload_Respond ==
    /\ pc = "loop_http"
    /\ upStatus = "ended"
    /\ upResponses' = Append(upResponses, 200)
    /\ upStatus' = "idle"
    /\ UNCHANGED <<uploadFile, upPath, upOpened, upChunks, upWritten, upCount,
                   upStale>>
    /\ UNCHANGED <<hw, drv, wait, net, imgv, sys>>

UploadNext ==
    \/ Upload_Start
    \/ Upload_Write
    \/ Upload_End
    \/ Upload_Aborted
    \/ Upload_Respond

UploadSpec == UploadInit /\ [][UploadNext]_vars

(***************************************************************************)
(* Observations on the record of calls and bus traffic.                    *)
(***************************************************************************)
MinOf(S) == CHOOSE x \in S : \A y \in S : x <= y
MaxOf(S) == CHOOSE x \in S : \A y \in S : x >= y
IsCall(e, fn) == e.ev = "call" /\ e.f = fn
IsRet(e, fn) == e.ev = "ret" /\ e.f = fn
\* Index of the return of the call at index i; 0 while it has not returned.
RetOf(i) ==
    LET js == {j \in (i + 1)..Len(calls) : IsRet(calls[j], calls[i].f)}
    IN  IF js = {} THEN 0 ELSE MinOf(js)
\* Index of the last call of fn before index j; 0 if there is none.
LastCall(fn, j) ==
    LET is == {i \in 1..(j - 1) : IsCall(calls[i], fn)}
    IN  IF is = {} THEN 0 ELSE MaxOf(is)
\* The bus traffic between the events at indices i and j.
Traffic(i, j) == SubSeq(bus, calls[i].at + 1, calls[j].at)
BitmapCalls == {i \in DOMAIN calls : IsCall(calls[i], "displayBitmap")}
ImageReturns == {r \in DOMAIN calls : IsRet(calls[r], "displayImageFromSD")}
Txn(cs_pin, dc, byte) == [cs |-> {cs_pin}, dc |-> dc, b |-> byte]
HalfSize == (EPD_HALF_WIDTH * EPD_HEIGHT) \div 8

(***************************************************************************)
(* C1: for a frame of exactly (width x height)/8 bytes, displayBitmap      *)
(* sends one start-transmission command to Master followed by exactly      *)
(* halfSize data bytes to Master (the first half of the frame, in order),  *)
(* then one start-transmission command to Slave followed by exactly        *)
(* halfSize data bytes to Slave (the second half), and nothing in between. *)
(***************************************************************************)
C1_HalvesInOrder ==
    \A i \in BitmapCalls :
        LET j == RetOf(i)
            frame == calls[i].arg[1].bytes
        IN  (j # 0 /\ calls[i].arg[2] = FrameSize /\ ~calls[i].arg[1].null) =>
            LET seg == Traffic(i, j)
                starts == {k \in DOMAIN seg :
                              seg[k].dc = LOW /\ seg[k].b = CMD_START_TRANSMISSION}
            IN  \E p \in starts, q \in starts :
                   /\ starts = {p, q}
                   /\ q = p + HalfSize + 1
                   /\ Len(seg) > q + HalfSize
                   /\ seg[p].cs = {"EPD_CS_M"}
                   /\ seg[q].cs = {"EPD_CS_S"}
                   /\ \A k \in 1..HalfSize :
                         /\ seg[p + k] = Txn("EPD_CS_M", HIGH, frame[k])
                         /\ seg[q + k] = Txn("EPD_CS_S", HIGH, frame[HalfSize + k])
                   /\ seg[q + HalfSize + 1].dc = LOW

\* A displayBitmap call on a full-size frame has returned.
C1_Witness ==
    \E i \in BitmapCalls : RetOf(i) # 0 /\ calls[i].arg[2] = FrameSize

(***************************************************************************)
(* C2: displayBitmap called with a null frame or a zero dataSize performs  *)
(* no bus transaction and returns failure to its caller: the               *)
(* displayImageFromSD call that made it reports failure.                   *)
(***************************************************************************)
C2_RejectedFrameReportsFailure ==
    \A i \in BitmapCalls :
        (InvalidImage(calls[i].arg[1], calls[i].arg[2]) /\ RetOf(i) # 0) =>
            /\ calls[RetOf(i)].at = calls[i].at
            /\ \A r \in ImageReturns :
                  (r > i /\ LastCall("displayImageFromSD", r) < i)
                      => calls[r].arg = <<FALSE>>

(***************************************************************************)
(* C3: waitUntilIdle always terminates.  While the loop runs, elapsed has  *)
(* not exceeded the ceiling; the loop is left no later than the first poll *)
(* at which elapsed exceeds it; the call returns within ceiling + one poll *)
(* interval + the settle delay; every poll that stays in the loop adds one *)
(* poll interval to elapsed, so the loop body runs a bounded number of     *)
(* times.                                                                  *)
(***************************************************************************)
C3_WaitBound ==
    /\ wpc = "loop" => elapsed <= BusyTimeoutMs
    /\ wpc = "settle" =>
          /\ elapsed <= BusyTimeoutMs + BusyPollMs
          /\ ULSub(clock, startTime) = elapsed
    /\ wpc = "done" =>
          ULSub(clock, startTime) <= BusyTimeoutMs + BusyPollMs + BusySettleMs

C3_WaitTerminates ==
    /\ []C3_WaitBound
    /\ [][ (wpc = "loop" /\ wpc' = "loop") => elapsed' = elapsed + BusyPollMs ]_vars

\* A wait on a line that stayed busy up to the ceiling is about to return.
C3_Witness ==
    /\ wpc = "done"
    /\ busyState = LOW
    /\ elapsed > BusyTimeoutMs

(***************************************************************************)
(* C4: a busy-wait timeout is a soft failure.  The bus traffic of a        *)
(* displayBitmap call on a non-empty frame is the same fixed sequence      *)
(* whatever the busy line did, and once the driver has nothing left to do  *)
(* the call has run through refresh() and sleep() and has returned.        *)
(***************************************************************************)
RefConfig(c) ==
    << Txn(c, LOW, 18), Txn(c, LOW, 0), Txn(c, HIGH, 31), Txn(c, LOW, 97),
       Txn(c, HIGH, EPD_HALF_WIDTH \div 256), Txn(c, HIGH, EPD_HALF_WIDTH % 256),
       Txn(c, HIGH, EPD_HEIGHT \div 256), Txn(c, HIGH, EPD_HEIGHT % 256),
       Txn(c, LOW, 80), Txn(c, HIGH, 151) >>
RefLoad(c, bytes) ==
    <<Txn(c, LOW, 16)>> \o [k \in 1..Len(bytes) |-> Txn(c, HIGH, bytes[k])]
RefRefresh ==
    << Txn("EPD_CS_M", LOW, 4), Txn("EPD_CS_S", LOW, 4),
       Txn("EPD_CS_M", LOW, 18), Txn("EPD_CS_S", LOW, 18) >>
RefSleep ==
    << Txn("EPD_CS_M", LOW, 2), Txn("EPD_CS_S", LOW, 2),
       Txn("EPD_CS_M", LOW, 7), Txn("EPD_CS_M", HIGH, 165),
       Txn("EPD_CS_S", LOW, 7), Txn("EPD_CS_S", HIGH, 165) >>
RefBitmap(frame) ==
    LET n == Len(frame)
    IN  RefConfig("EPD_CS_M") \o RefConfig("EPD_CS_S")
        \o RefLoad("EPD_CS_M", SubSeq(frame, 1, n \div 2))
        \o RefLoad("EPD_CS_S", SubSeq(frame, n \div 2 + 1, n))
        \o RefRefresh \o RefSleep

C4_TimeoutIsSoft ==
    /\ \A i \in BitmapCalls :
          (RetOf(i) # 0 /\ ~InvalidImage(calls[i].arg[1], calls[i].arg[2])) =>
              /\ Traffic(i, RetOf(i)) = RefBitmap(calls[i].arg[1].bytes)
              /\ \E x \in i..RetOf(i), y \in i..RetOf(i) :
                    /\ x < y
                    /\ IsRet(calls[x], "refresh")
                    /\ IsRet(calls[y], "sleep")
    /\ (pc = "img_save" /\ DriverIdle) =>
          /\ calls # <<>>
          /\ IsRet(calls[Len(calls)], "displayBitmap")

\* A displayBitmap call on a non-empty frame has returned after every one
\* of its waits ended by the timeout.
C4_Witness ==
    /\ pc = "img_save"
    /\ DriverIdle
    /\ imgFileSize > 0
    /\ bmWaits > 0
    /\ bmAllTimedOut

(***************************************************************************)
(* C5: the image name is persisted (and current_image set) only after the  *)
(* frame was displayed: every displayImageFromSD call that returns true    *)
(* contains a displayBitmap call that put the frame on the bus and ran     *)
(* through refresh() and sleep().                                          *)
(***************************************************************************)
C5_PersistOnlyAfterDisplay ==
    \A r \in ImageReturns :
        calls[r].arg = <<TRUE>> =>
            \E b \in BitmapCalls :
                /\ LastCall("displayImageFromSD", r) < b
                /\ b < r
                /\ RetOf(b) # 0
                /\ RetOf(b) < r
                /\ calls[RetOf(b)].at > calls[b].at
                /\ \E y \in b..RetOf(b) : IsRet(calls[y], "sleep")

(***************************************************************************)
(* C6: a displayImageFromSD call that fails (open, allocation or short     *)
(* read) returns false having issued no bus transaction and having left    *)
(* the persisted and the in-memory image name as they were; it returns     *)
(* true only if it called displayBitmap; and displayBitmap is called, with *)
(* no bus traffic before it, only on the whole content of the file.        *)
(***************************************************************************)
C6_FailureLeavesNoTrace ==
    /\ \A r \in ImageReturns :
          LET c == LastCall("displayImageFromSD", r)
              inside == {b \in BitmapCalls : c < b /\ b < r}
          IN  /\ calls[r].arg = <<FALSE>> =>
                    (calls[r].at = calls[c].at /\ inside = {})
              /\ calls[r].arg = <<TRUE>> => inside # {}
    /\ (pc = "img_ret" /\ ~imgResult) =>
          LET c == LastCall("displayImageFromSD", Len(calls))
          IN  /\ c # 0
              /\ prefs.current_img = calls[c].arg[2]
              /\ current_image = calls[c].arg[3]
    /\ \A b \in BitmapCalls :
          LET c == LastCall("displayImageFromSD", b)
          IN  /\ c # 0
              /\ calls[c].arg[1] \in DOMAIN SdCard
              /\ calls[b].at = calls[c].at
              /\ calls[b].arg = << Buffer(SdCard[calls[c].arg[1]]),
                                   Len(SdCard[calls[c].arg[1]]) >>

\* A display request for another image than the persisted one has failed.
C6_Witness ==
    /\ pc = "img_ret"
    /\ ~imgResult
    /\ prefs.current_img # NoKey
    /\ prefs.current_img # img
    /\ img \in DOMAIN SdCard

(***************************************************************************)
(* C7: when establishNetwork returns, the role is a function of the stored *)
(* ssid and the connection outcome: no ssid -> AccessPoint, not            *)
(* configured, no station attempt; ssid and connected -> Station,          *)
(* configured; ssid and not connected -> AccessPoint, not configured.      *)
(***************************************************************************)
C7_RoleResolution ==
    pc = "setup_web" =>
        LET saved_ssid == getString(prefs, "wifi_ssid", "")
        IN  /\ saved_ssid = "" =>
                  /\ mode = NETWORK_MODE_AP
                  /\ ~wifi_configured
                  /\ access_point_active
                  /\ staAttempts = 0
            /\ (saved_ssid # "" /\ connectResult) =>
                  /\ mode = NETWORK_MODE_STA
                  /\ wifi_configured
                  /\ ~access_point_active
                  /\ staAttempts = 1
            /\ (saved_ssid # "" /\ ~connectResult) =>
                  /\ mode = NETWORK_MODE_AP
                  /\ ~wifi_configured
                  /\ access_point_active
                  /\ staAttempts = 1

\* establishNetwork has fallen back to AccessPoint after a failed connect.
C7_Witness ==
    /\ pc = "setup_web"
    /\ getString(prefs, "wifi_ssid", "") # ""
    /\ ~connectResult
    /\ mode = NETWORK_MODE_AP

(***************************************************************************)
(* C8: once establishNetwork has returned, no step before the next restart *)
(* changes wifi_configured, access_point_active or the resolved mode, and  *)
(* no further station connection is attempted.                             *)
(***************************************************************************)
Resolved == pc = "setup_web" \/ serverStarted

C8_RoleFixedUntilRestart ==
    [][ (Resolved /\ pc # "restart") =>
            UNCHANGED <<wifi_configured, access_point_active, mode, staAttempts>> ]_vars

\* The main loop runs in the AccessPoint role after a failed station attempt.
C8_Witness ==
    /\ pc = "loop_served"
    /\ access_point_active
    /\ staAttempts = 1
    /\ httpStatus = 400

(***************************************************************************)
(* C9: connectToWiFi polls at most timeout_s times, leaves its loop only   *)
(* when the status is connected or timeout_s polls were made, and returns  *)
(* true exactly when the status read after the loop is connected.          *)
(***************************************************************************)
C9_ConnectBounded ==
    /\ elapsed_s <= CONNECT_TIMEOUT_S
    /\ pc = "connect_check" =>
          (wifiStatus = WL_CONNECTED \/ elapsed_s = CONNECT_TIMEOUT_S)
    /\ pc = "net_connected" =>
          (connectResult <=> wifiStatus = WL_CONNECTED)

\* connectToWiFi returns true after the last of its timeout_s polls.
C9_Witness ==
    /\ pc = "net_connected"
    /\ elapsed_s = CONNECT_TIMEOUT_S
    /\ connectResult

(***************************************************************************)
(* C10: at the end of setup, displayBitmap has been called exactly once,   *)
(* on the bytes of the persisted image X and after the station-info        *)
(* screen, if X is set, the role is Station and X was read; otherwise it   *)
(* has not been called at all, nor is it when setup halts for want of an   *)
(* SD card.                                                                *)
(***************************************************************************)
C10_RoundTrip ==
    /\ pc = "setup_done" =>
          LET X == getString(prefs, "current_img", "")
          IN  IF X # "" /\ mode = NETWORK_MODE_STA /\ imgResult
              THEN \E b \in BitmapCalls :
                      /\ BitmapCalls = {b}
                      /\ calls[b].arg = <<Buffer(SdCard[X]), Len(SdCard[X])>>
                      /\ \E s \in 1..b :
                            IsRet(calls[s], "displayStationConnectionInfo")
              ELSE BitmapCalls = {}
    /\ pc = "halt" => BitmapCalls = {}

\* Setup ends having displayed the persisted full-size image.
C10_Witness ==
    /\ pc = "setup_done"
    /\ prefs.current_img = "photo.bin"
    /\ imgResult
    /\ BitmapCalls # {}

(***************************************************************************)
(* C11: once begin() has returned, each chip-select line is driven, the    *)
(* two are never low in the same state, and every byte on the bus reaches  *)
(* exactly one controller.                                                 *)
(***************************************************************************)
BeginReturned == pc # "boot" /\ ~(pc = "setup_sd" /\ todo # <<>>)

C11_SelectsExclusive ==
    /\ BeginReturned =>
          /\ \A c \in ChipSelects : pin[c] \in {LOW, HIGH}
          /\ ~(pin["EPD_CS_M"] = LOW /\ pin["EPD_CS_S"] = LOW)
    /\ \A k \in DOMAIN bus : Cardinality(bus[k].cs) = 1

\* A byte is about to go to the Slave controller while Master is deselected,
\* after Master has already been served in the same job.
C11_Witness ==
    /\ BeginReturned
    /\ pin["EPD_CS_S"] = LOW
    /\ pin["EPD_CS_M"] = HIGH
    /\ \E k \in DOMAIN bus : bus[k].cs = {"EPD_CS_M"}

(***************************************************************************)
(* C12: whenever control is back in setup's last statement or in the main  *)
(* loop after a job that called init(), the last of the panel operations   *)
(* init, clear, refresh, sleep to return was sleep() and the power-enable  *)
(* line is low.                                                            *)
(***************************************************************************)
PanelOps == {"init", "clear", "refresh", "sleep"}
JobOver == pc \in {"setup_done", "loop_served", "loop_end"} /\ DriverIdle
PanelReturns == {i \in DOMAIN calls : calls[i].ev = "ret" /\ calls[i].f \in PanelOps}

C12_CycleEndsInSleep ==
    (JobOver /\ \E i \in DOMAIN calls : IsCall(calls[i], "init")) =>
        /\ pin["EPD_PWR"] = LOW
        /\ PanelReturns # {}
        /\ calls[MaxOf(PanelReturns)].f = "sleep"

(***************************************************************************)
(* C13: at most one display operation is in flight.  The statements of a   *)
(* panel operation are handed to the driver only when the driver has       *)
(* nothing left to run and no wait is in progress; otherwise the only      *)
(* change to the pending statements is that the first one is executed.     *)
(***************************************************************************)
C13_OneOperationInFlight ==
    [][ todo' # todo =>
            \/ DriverIdle
            \/ (todo # <<>> /\ todo' = Tail(todo)) ]_vars

\* The /display handler's operation is under way in the main loop.
C13_Witness ==
    /\ pc = "img_save"
    /\ imgCaller = "handleDisplay"
    /\ todo # <<>>
    /\ bus # <<>>

(***************************************************************************)
(* C14: in the Station role with an image selected, an iteration of the    *)
(* main loop re-submits current_image through displayImageFromSD exactly   *)
(* when at least REFRESH_INTERVAL has elapsed since last_refresh_time      *)
(* (unsigned arithmetic); apart from setup's startup display and a        *)
(* restart, only a scheduled refresh changes last_refresh_time, and it     *)
(* moves it forward by at least REFRESH_INTERVAL.                          *)
(***************************************************************************)
SinceLastRefresh == ULSub(currentTime, last_refresh_time)

C14_RefreshSchedule ==
    /\ pc = "loop_refresh_img" =>
          /\ mode = NETWORK_MODE_STA
          /\ current_image # ""
          /\ SinceLastRefresh >= REFRESH_INTERVAL
    /\ (pc = "loop_end" /\ mode = NETWORK_MODE_STA /\ current_image # "") =>
          SinceLastRefresh < REFRESH_INTERVAL
    /\ (imgCaller = "loop" /\ pc \in {"img_open", "img_malloc", "img_read",
                                      "img_save", "img_ret"}) =>
          /\ calls[LastCall("displayImageFromSD", Len(calls) + 1)].arg[1] = img
          /\ (pc # "img_ret" \/ ~imgResult) => img = current_image
          /\ SinceLastRefresh >= REFRESH_INTERVAL

DnsServiced ==
    \E i \in DOMAIN calls :
        calls[i].ev = "note" /\ calls[i].f = "dnsServer.processNextRequest"

C15_CaptiveDns ==
    /\ dnsStarted => (Resolved /\ mode = NETWORK_MODE_AP)
    /\ (Resolved /\ mode = NETWORK_MODE_AP) => dnsStarted
    /\ pc = "loop_http" => (DnsServiced <=> mode = NETWORK_MODE_AP)
    /\ DnsServiced => (dnsStarted /\ mode = NETWORK_MODE_AP)

\* An iteration of the main loop has serviced DNS in the AccessPoint role
\* the device fell back to after a failed station attempt.
C15_Witness ==
    /\ pc = "loop_http"
    /\ DnsServiced
    /\ staAttempts = 1

(***************************************************************************)
(* C16: a /save-wifi request with both ssid and password persists both     *)
(* values, answers 200 and restarts the device, the running role being     *)
(* left as it was until the restart; a request that lacks either           *)
(* parameter answers 400, persists nothing and causes no restart.  The     *)
(* stored credentials change in no other way.                              *)
(***************************************************************************)
IsSaveWiFi(e) == e.ev = "note" /\ e.f = "handleSaveWiFi"
SaveWiFiServed ==
    /\ pc \in {"restart", "loop_served"}
    /\ calls # <<>>
    /\ IsSaveWiFi(calls[Len(calls)])

C16_SaveOutcome ==
    /\ SaveWiFiServed =>
          LET req == calls[Len(calls)].arg
          IN  IF req[1] /\ req[2]
              THEN /\ pc = "restart"
                   /\ httpStatus = 200
                   /\ prefs.wifi_ssid = req[3]
                   /\ prefs.wifi_pass = req[4]
              ELSE /\ pc = "loop_served"
                   /\ httpStatus = 400
    /\ pc = "restart" => SaveWiFiServed

C16_SaveForcesRestart ==
    /\ []C16_SaveOutcome
    /\ [][ /\ (prefs'.wifi_ssid # prefs.wifi_ssid
               \/ prefs'.wifi_pass # prefs.wifi_pass) => pc' = "restart"
           /\ pc' = "restart" =>
                 /\ UNCHANGED <<wifi_configured, access_point_active, mode,
                                prefs.current_img>>
           /\ (pc = "loop_http" /\ pc' = "loop_served") => prefs' = prefs
           /\ pc = "restart" => (pc' = "boot" /\ prefs' = prefs)
         ]_vars

\* Credentials sent to a device in the AccessPoint role are stored and the
\* restart is pending, the role still being AccessPoint.
C16_Witness ==
    /\ pc = "restart"
    /\ prefs.wifi_ssid = "HomeNet"
    /\ access_point_active
    /\ ~wifi_configured

(***************************************************************************)
(* C17: every frame displayImageFromSD hands to displayBitmap has exactly  *)
(* (width x height)/8 bytes.                                               *)
(***************************************************************************)
C17_FrameLength ==
    \A i \in BitmapCalls :
        LastCall("displayImageFromSD", i) # 0 =>
            /\ calls[i].arg[2] = FrameSize
            /\ Len(calls[i].arg[1].bytes) = FrameSize

(***************************************************************************)
(* C18: within a displayImageFromSD call at most one file is opened and    *)
(* at most one buffer allocated; a close follows an open and a free        *)
(* follows a malloc, never twice; displayBitmap is not called or running   *)
(* after the free; and when the call has returned, on every path, the      *)
(* opened file has been closed and the allocated buffer freed, once each.  *)
(***************************************************************************)
NotesIn(fn, from, to) ==
    {k \in from..to : calls[k].ev = "note" /\ calls[k].f = fn}

C18_NothingOutlivesTheCall ==
    LET c == LastCall("displayImageFromSD", Len(calls) + 1)
    IN  c # 0 =>
        LET r == RetOf(c)
            last == IF r = 0 THEN Len(calls) ELSE r
            opens == NotesIn("SD.open", c, last)
            closes == NotesIn("file.close", c, last)
            mallocs == NotesIn("malloc", c, last)
            frees == NotesIn("free", c, last)
        IN  /\ Cardinality(opens) <= 1
            /\ Cardinality(mallocs) <= 1
            /\ Cardinality(closes) <= Cardinality(opens)
            /\ Cardinality(frees) <= Cardinality(mallocs)
            /\ \A k \in closes : \E o \in opens : o < k
            /\ \A k \in frees : \E m \in mallocs : m < k
            /\ \A k \in frees : \A b \in c..last :
                  calls[b].f = "displayBitmap" => b < k
            /\ frees # {} => (todo = <<>> /\ ~inBitmap)
            /\ r # 0 =>
                  /\ Cardinality(closes) = Cardinality(opens)
                  /\ Cardinality(frees) = Cardinality(mallocs)
                  /\ imgBuffer = NULL

\* A call that opened the file and allocated the buffer has returned false
\* after a short read.
C18_Witness ==
    /\ pc = "img_ret"
    /\ ~imgResult
    /\ \E k \in DOMAIN calls : calls[k].ev = "note" /\ calls[k].f = "free"

(***************************************************************************)
(* C19: at boot exactly one role screen is rendered: the access-point      *)
(* instructions if and only if the role is AccessPoint, the station        *)
(* connection info if and only if it is Station.  No role screen is        *)
(* started before the role is resolved, the screen has returned before     *)
(* setup goes on, and any automatic display of the saved image comes       *)
(* after it.  The main loop renders no role screen.                        *)
(***************************************************************************)
CallsOf(fn) == {i \in DOMAIN calls : IsCall(calls[i], fn)}
ApScreens == CallsOf("displayAccessPointInstructions")
StaScreens == CallsOf("displayStationConnectionInfo")
ImgPcs == {"img_open", "img_malloc", "img_read", "img_save", "img_ret"}
ScreenRendered ==
    \/ pc = "setup_auto" /\ DriverIdle
    \/ pc \in {"setup_auto_img", "setup_done"}
    \/ pc \in ImgPcs /\ imgCaller = "setup"

C19_RoleScreen ==
    /\ (ApScreens \cup StaScreens) # {} =>
          /\ Resolved
          /\ pc = "setup_auto" \/ ScreenRendered
    /\ ScreenRendered =>
          /\ Cardinality(ApScreens \cup StaScreens) = 1
          /\ ApScreens # {} <=> mode = NETWORK_MODE_AP
          /\ StaScreens # {} <=> mode = NETWORK_MODE_STA
          /\ \A s \in ApScreens \cup StaScreens :
                /\ RetOf(s) # 0
                /\ \A i \in CallsOf("displayImageFromSD") \cup BitmapCalls :
                      i > RetOf(s)

\* The station info screen has been rendered and the saved image is being
\* displayed after it.
C19_Witness ==
    /\ pc = "img_save"
    /\ imgCaller = "setup"
    /\ StaScreens # {}
    /\ BitmapCalls # {}

(***************************************************************************)
(* C20: the halt is entered only from the SD initialisation of setup, it   *)
(* is never left, and in it the role is unresolved, the web server and the *)
(* DNS responder are not started and the main loop does not run; the       *)
(* error screen is rendered there and nowhere else.  When SD               *)
(* initialisation succeeds, setup completes and the main loop runs.        *)
(***************************************************************************)
ErrorScreens ==
    {i \in CallsOf("displayText") : calls[i].arg[1] = "ERROR: No SD Card"}

C20_Halted ==
    /\ pc = "halt" =>
          /\ ~Resolved
          /\ ~serverStarted
          /\ ~dnsStarted
          /\ staAttempts = 0
          /\ ~wifi_configured /\ ~access_point_active
          /\ DriverIdle =>
                \E i \in ErrorScreens : RetOf(i) # 0
    /\ ErrorScreens # {} => pc = "halt"

C20_OnlyHalt ==
    /\ []C20_Halted
    /\ [][ /\ pc = "halt" => pc' = "halt"
           /\ (pc' = "halt" /\ pc # "halt") => pc = "setup_sd" ]_vars
    /\ (pc = "net_read") ~> (pc = "loop")

\* The device has halted with the error screen rendered and the panel
\* asleep.
C20_Witness ==
    /\ pc = "halt"
    /\ DriverIdle
    /\ ErrorScreens # {}
    /\ pin["EPD_PWR"] = LOW

(***************************************************************************)
(* C21: a displayBitmap call on a non-empty frame runs its phases strictly *)
(* in the order init(), load of the Master half, load of the Slave half,   *)
(* refresh(), sleep(); each phase happens exactly once, nothing else puts  *)
(* a byte on the bus in between, and when the call returns sleep() has     *)
(* returned and the power-enable pin is low.                               *)
(***************************************************************************)
BitmapPhases ==
    << [ev |-> "call", f |-> "init"],
       [ev |-> "call", f |-> "reset"], [ev |-> "ret", f |-> "reset"],
       [ev |-> "ret", f |-> "init"],
       [ev |-> "call", f |-> "refresh"], [ev |-> "ret", f |-> "refresh"],
       [ev |-> "call", f |-> "sleep"], [ev |-> "ret", f |-> "sleep"],
       [ev |-> "ret", f |-> "displayBitmap"] >>
\* The calls and returns recorded after event i up to event j, in order.
Transitions(i, j) ==
    SelectSeq(SubSeq(calls, i + 1, j), LAMBDA e : e.ev # "note")
ValidBitmapCalls ==
    {i \in BitmapCalls : ~InvalidImage(calls[i].arg[1], calls[i].arg[2])}

C21_PhaseOrder ==
    \A i \in ValidBitmapCalls :
        LET r == RetOf(i)
            last == IF r = 0 THEN Len(calls) ELSE r
            frame == calls[i].arg[1].bytes
            n == Len(frame)
            inner == <<calls[i]>> \o Transitions(i, last)
            m == Len(inner) - 1
            Between(a, b) == SubSeq(bus, inner[a + 1].at + 1, inner[b + 1].at)
        IN  /\ m <= Len(BitmapPhases)
            /\ \A k \in 1..m :
                  /\ inner[k + 1].ev = BitmapPhases[k].ev
                  /\ inner[k + 1].f = BitmapPhases[k].f
            /\ m >= 1 => Between(0, 1) = <<>>
            /\ m >= 5 =>
                  Between(4, 5) =
                      RefLoad("EPD_CS_M", SubSeq(frame, 1, n \div 2))
                      \o RefLoad("EPD_CS_S", SubSeq(frame, n \div 2 + 1, n))
            /\ m >= 7 => Between(6, 7) = <<>>
            /\ r # 0 =>
                  /\ m = Len(BitmapPhases)
                  /\ Between(8, 9) = <<>>
                  /\ r = Len(calls) => pin["EPD_PWR"] = LOW

\* A displayBitmap call on a non-empty frame has just returned.
C21_Witness ==
    /\ calls # <<>>
    /\ IsRet(calls[Len(calls)], "displayBitmap")
    /\ \E i \in ValidBitmapCalls : RetOf(i) = Len(calls)
    /\ DriverIdle

(***************************************************************************)
(* C22: init() performs reset(), then exactly one waitUntilIdle(), and     *)
(* only then talks to the controllers: Master is configured completely     *)
(* before the first byte goes to Slave, and each controller receives       *)
(* exactly command 0x12; command 0x00, data 0x1F; command 0x61 with the    *)
(* half-width and the height as two big-endian bytes each (0x03 0x20 and   *)
(* 0x04 0xB0 for 800 and 1200); command 0x50, data 0x97.                   *)
(***************************************************************************)
InitEvents ==
    << [ev |-> "call", f |-> "reset"], [ev |-> "ret", f |-> "reset"],
       [ev |-> "note", f |-> "waitUntilIdle"], [ev |-> "ret", f |-> "init"] >>
\* The events recorded after event i up to event j, delays left out.
WithoutDelays(i, j) ==
    SelectSeq(SubSeq(calls, i + 1, j), LAMBDA e : e.f # "delay")
ConfigTraffic(c) ==
    << Txn(c, LOW, \H12),
       Txn(c, LOW, \H00), Txn(c, HIGH, \H1F),
       Txn(c, LOW, \H61),
       Txn(c, HIGH, HighByte(EPD_HALF_WIDTH)), Txn(c, HIGH, LowByte(EPD_HALF_WIDTH)),
       Txn(c, HIGH, HighByte(EPD_HEIGHT)), Txn(c, HIGH, LowByte(EPD_HEIGHT)),
       Txn(c, LOW, \H50), Txn(c, HIGH, \H97) >>
InitTraffic == ConfigTraffic("EPD_CS_M") \o ConfigTraffic("EPD_CS_S")
IsPrefix(s, t) == Len(s) <= Len(t) /\ s = SubSeq(t, 1, Len(s))

C22_InitSequence ==
    /\ <<HighByte(800), LowByte(800), HighByte(1200), LowByte(1200)>>
          = <<\H03, \H20, \H04, \HB0>>
    /\ \A i \in CallsOf("init") :
          LET r == RetOf(i)
              last == IF r = 0 THEN Len(calls) ELSE r
              sent == SubSeq(bus, calls[i].at + 1,
                             IF r = 0 THEN Len(bus) ELSE calls[r].at)
              inner == WithoutDelays(i, last)
          IN  /\ Len(inner) <= Len(InitEvents)
              /\ \A k \in 1..Len(inner) :
                    /\ inner[k].ev = InitEvents[k].ev
                    /\ inner[k].f = InitEvents[k].f
              /\ Len(inner) < 3 => sent = <<>>
              /\ Len(inner) >= 3 => inner[3].at = calls[i].at
              /\ IsPrefix(sent, InitTraffic)
              /\ r # 0 => sent = InitTraffic

\* init() has just returned.
C22_Witness ==
    /\ calls # <<>>
    /\ IsRet(calls[Len(calls)], "init")
    /\ Len(bus) >= Len(InitTraffic)

(***************************************************************************)
(* C23: clear() sends, for Master and then for Slave, one                  *)
(* start-transmission command followed by exactly (halfWidth x height)/8   *)
(* data bytes (120,000 for 800 x 1200), every one of them 0xFF, and only   *)
(* after both controllers are loaded it calls refresh(), exactly once.     *)
(***************************************************************************)
ClearEvents ==
    << [ev |-> "call", f |-> "refresh"], [ev |-> "ret", f |-> "refresh"],
       [ev |-> "ret", f |-> "clear"] >>
White == [k \in 1..HalfSize |-> \HFF]
ClearLoad == RefLoad("EPD_CS_M", White) \o RefLoad("EPD_CS_S", White)

C23_ClearSequence ==
    /\ (800 * 1200) \div 8 = 120000
    /\ \A i \in CallsOf("clear") :
          LET r == RetOf(i)
              last == IF r = 0 THEN Len(calls) ELSE r
              inner == Transitions(i, last)
              loaded == SubSeq(bus, calls[i].at + 1,
                               IF inner = <<>> THEN Len(bus) ELSE inner[1].at)
          IN  /\ Len(inner) <= Len(ClearEvents)
              /\ \A k \in 1..Len(inner) :
                    /\ inner[k].ev = ClearEvents[k].ev
                    /\ inner[k].f = ClearEvents[k].f
              /\ IsPrefix(loaded, ClearLoad)
              /\ inner # <<>> => loaded = ClearLoad
              /\ r # 0 =>
                    /\ Len(inner) = Len(ClearEvents)
                    /\ SubSeq(bus, inner[1].at + 1, inner[2].at) = RefRefresh
                    /\ inner[3].at = inner[2].at

\* clear() has just returned.
C23_Witness ==
    /\ calls # <<>>
    /\ IsRet(calls[Len(calls)], "clear")
    /\ \E i \in CallsOf("clear") : RetOf(i) = Len(calls)

(***************************************************************************)
(* C24: refresh() issues, in this order: power-on (0x04) to Master,        *)
(* waitUntilIdle, power-on to Slave, waitUntilIdle, display-refresh (0x12) *)
(* to Master, display-refresh to Slave, a settle delay, and a final        *)
(* waitUntilIdle; inside refresh() the display-refresh command goes out    *)
(* only after both controllers have received power-on.                     *)
(***************************************************************************)
RefreshEvents ==
    << [ev |-> "note", f |-> "waitUntilIdle", sent |-> 1],
       [ev |-> "note", f |-> "waitUntilIdle", sent |-> 2],
       [ev |-> "note", f |-> "delay", sent |-> 4],
       [ev |-> "note", f |-> "waitUntilIdle", sent |-> 4],
       [ev |-> "ret", f |-> "refresh", sent |-> 4] >>

C24_RefreshSequence ==
    \A i \in CallsOf("refresh") :
        LET r == RetOf(i)
            last == IF r = 0 THEN Len(calls) ELSE r
            sent == SubSeq(bus, calls[i].at + 1,
                           IF r = 0 THEN Len(bus) ELSE calls[r].at)
        IN  /\ last - i <= Len(RefreshEvents)
            /\ \A k \in 1..(last - i) :
                  /\ calls[i + k].ev = RefreshEvents[k].ev
                  /\ calls[i + k].f = RefreshEvents[k].f
                  /\ calls[i + k].at = calls[i].at + RefreshEvents[k].sent
            /\ IsPrefix(sent, RefRefresh)
            /\ Len(sent) > 1 => last >= i + 1
            /\ Len(sent) > 2 => last >= i + 2
            /\ r # 0 => sent = RefRefresh
            /\ \A k \in 1..Len(sent) :
                  sent[k].b = CMD_REFRESH =>
                      \A c \in ChipSelects :
                          \E j \in 1..(k - 1) : sent[j] = Txn(c, LOW, CMD_POWER_ON)

\* refresh() has just returned.
C24_Witness ==
    /\ calls # <<>>
    /\ IsRet(calls[Len(calls)], "refresh")
    /\ \E i \in CallsOf("refresh") : RetOf(i) = Len(calls)

(***************************************************************************)
(* C25: sleep() issues power-off (0x02) to Master and then to Slave with a *)
(* waitUntilIdle after each, then deep-sleep (0x07) with data byte 0xA5 to *)
(* Master and then to Slave, and only then drives power-enable low; after  *)
(* sleep() has returned nothing is sent on the bus until the next reset()  *)
(* has driven power-enable high again.                                     *)
(***************************************************************************)
SleepEvents ==
    << [ev |-> "note", f |-> "waitUntilIdle", sent |-> 1],
       [ev |-> "note", f |-> "waitUntilIdle", sent |-> 2],
       [ev |-> "ret", f |-> "sleep", sent |-> 6] >>
SleepReturns == {r \in DOMAIN calls : IsRet(calls[r], "sleep")}
ResetsAfter(r) == {k \in (r + 1)..Len(calls) : IsCall(calls[k], "reset")}

C25_SleepOrder ==
    /\ \A i \in CallsOf("sleep") :
          LET r == RetOf(i)
              last == IF r = 0 THEN Len(calls) ELSE r
              sent == SubSeq(bus, calls[i].at + 1,
                             IF r = 0 THEN Len(bus) ELSE calls[r].at)
          IN  /\ last - i <= Len(SleepEvents)
              /\ \A k \in 1..(last - i) :
                    /\ calls[i + k].ev = SleepEvents[k].ev
                    /\ calls[i + k].f = SleepEvents[k].f
                    /\ calls[i + k].at = calls[i].at + SleepEvents[k].sent
              /\ IsPrefix(sent, RefSleep)
              /\ Len(sent) > 1 => last >= i + 1
              /\ Len(sent) > 2 => last >= i + 2
              /\ (r = 0 /\ sent # RefSleep) => pin["EPD_PWR"] = HIGH
    /\ \A r \in SleepReturns :
          IF ResetsAfter(r) = {}
          THEN /\ Len(bus) = calls[r].at
               /\ pin["EPD_PWR"] = LOW
          ELSE LET k == MinOf(ResetsAfter(r))
               IN  /\ calls[k].at = calls[r].at
                   /\ (RetOf(k) = 0 /\ pin["EPD_PWR"] = LOW) => Len(bus) = calls[r].at
                   /\ RetOf(k) = Len(calls) => pin["EPD_PWR"] = HIGH

\* C25: the order of sleep() holds in every state, and a byte goes on the
\* bus only while power-enable is high, so nothing is sent between the
\* return of sleep() and the next reset().
C25_SleepSequence ==
    /\ []C25_SleepOrder
    /\ [][Len(bus') > Len(bus) => pin["EPD_PWR"] = HIGH]_vars

\* sleep() has returned and a later reset() has powered the panel up again;
\* bytes are on the bus again.
C25_Witness ==
    \E r \in SleepReturns :
        /\ ResetsAfter(r) # {}
        /\ Len(bus) > calls[r].at

(***************************************************************************)
(* C26: the display-refresh opcode (0x12) is sent as a command only inside *)
(* refresh(): every command byte on the bus that equals the opcode was     *)
(* sent between the entry of a refresh() call and its return, and none by  *)
(* begin, reset, the controller configuration of init, a data-load phase   *)
(* or sleep.                                                               *)
(***************************************************************************)
InsideRefresh(k) ==
    \E i \in CallsOf("refresh") :
        /\ calls[i].at < k
        /\ RetOf(i) # 0 => k <= calls[RetOf(i)].at

C26_RefreshOnlyInRefresh ==
    \A k \in DOMAIN bus :
        (bus[k].dc = LOW /\ bus[k].b = CMD_REFRESH) => InsideRefresh(k)

(***************************************************************************)
(* C27: clear() is idempotent: any two calls of clear() put the same       *)
(* sequence of transactions on the bus and record the same events, each    *)
(* call contains exactly one refresh cycle (two calls, two cycles), and    *)
(* every pixel byte loaded by either call is 0xFF (all white).             *)
(***************************************************************************)
ClearsDone == {i \in CallsOf("clear") : RetOf(i) # 0}
RefreshesIn(i) == {k \in i..RetOf(i) : IsCall(calls[k], "refresh")}
EventsOf(i) ==
    [k \in 1..(RetOf(i) - i) |->
        [ev |-> calls[i + k].ev, f |-> calls[i + k].f,
         sent |-> calls[i + k].at - calls[i].at]]
PixelsOf(i) ==
    SelectSeq(SubSeq(bus, calls[i].at + 1, calls[MinOf(RefreshesIn(i))].at),
              LAMBDA t : t.dc = HIGH)

WaitsIn(i) ==
    NotesIn("waitUntilIdle", i, IF RetOf(i) = 0 THEN Len(calls) ELSE RetOf(i))
WaitCeiling == BusyTimeoutMs + BusyPollMs + BusySettleMs

\* C28 as stated: a displayBitmap call passes through at most 4 wait
\* points.
C28_AtMostFourWaits ==
    /\ \A i \in BitmapCalls : Cardinality(WaitsIn(i)) <= 4
    /\ inBitmap => bmWaits <= 4

\* C28, amended: a displayBitmap call on a non-empty frame passes through
\* exactly 6 wait points (one in init(), three in refresh(), two in
\* sleep()) and a rejected call through none; each wait returns within the
\* ceiling plus one poll interval plus the settle delay, so the call blocks
\* in waits for at most 6 times that.
C28_SixWaits ==
    /\ \A i \in BitmapCalls :
          /\ Cardinality(WaitsIn(i)) <= 6
          /\ (RetOf(i) # 0 /\ i \in ValidBitmapCalls) =>
                /\ Cardinality(WaitsIn(i)) = 6
                /\ \A k \in WaitsIn(i) :
                      LET open == {c \in i..k : calls[c].ev = "call"
                                                 /\ (RetOf(c) = 0 \/ RetOf(c) > k)}
                      IN  calls[MaxOf(open)].f \in {"init", "refresh", "sleep"}
                /\ Cardinality({k \in WaitsIn(i) : calls[LastCall("init", k)].at = calls[k].at
                                                   /\ LastCall("refresh", k) < i}) = 1
                /\ Cardinality({k \in WaitsIn(i) : LastCall("sleep", k) > i}) = 2
          /\ (RetOf(i) # 0 /\ i \notin ValidBitmapCalls) => WaitsIn(i) = {}
    /\ inBitmap =>
          /\ bmWaits <= 6
          /\ bmWaits = Cardinality(WaitsIn(MaxOf(BitmapCalls)))
                          - (IF wpc = "idle" THEN 0 ELSE 1)
          /\ wpc = "done" => ULSub(clock, startTime) <= WaitCeiling

\* A displayBitmap call has returned after six waits, every one of which
\* ended by the timeout.
C28_Witness ==
    /\ pc = "img_save"
    /\ DriverIdle
    /\ bmWaits = 6
    /\ bmAllTimedOut
    /\ \E i \in ValidBitmapCalls : RetOf(i) # 0 /\ Cardinality(WaitsIn(i)) = 6

(***************************************************************************)
(* C29: every bus transaction follows one protocol.  The DC line is        *)
(* written, then the target select is asserted (both selects being high    *)
(* and DC not moving any more), then exactly one byte is clocked with DC   *)
(* at the level written, then the same select is deasserted; no select is  *)
(* low at any call, return, delay or wait between transactions.            *)
(***************************************************************************)
IsSelectWrite(s, v) == s.op = "pin" /\ s.pin \in ChipSelects /\ s.v = v
Asserted == {c \in ChipSelects : pin[c] = LOW}

C29_TransactionShape ==
    /\ \A k \in DOMAIN todo :
          todo[k].op = "spi" =>
              /\ k < Len(todo)
              /\ IsSelectWrite(todo[k + 1], HIGH)
              /\ k >= 2 => todo[k - 1] = digitalWrite(todo[k + 1].pin, LOW)
              /\ k >= 3 => todo[k - 2].op = "pin" /\ todo[k - 2].pin = "EPD_DC"
              /\ k = 1 => Asserted = {todo[k + 1].pin}
              /\ k = 2 => pin["EPD_DC"] \in {LOW, HIGH}
    /\ Asserted # {} =>
          /\ todo # <<>>
          /\ \/ Head(todo).op = "spi"
             \/ \E c \in ChipSelects : Asserted = {c} /\ Head(todo) = digitalWrite(c, HIGH)
    /\ (wpc # "idle" \/ todo = <<>> \/ Next1.op \in {"call", "ret", "delay", "wait"}) =>
          Asserted = {}
    /\ (BeginReturned /\ Asserted = {}) => \A c \in ChipSelects : pin[c] = HIGH

\* C29: the shape holds in every state; a select is asserted only while
\* both are high, with DC settled and the byte next; DC moves only while no
\* select is low and a select is asserted next; a byte is clocked only
\* under exactly one select, which is deasserted next.
C29_Protocol ==
    /\ []C29_TransactionShape
    /\ [][ \A c \in ChipSelects :
              (pin[c] # LOW /\ pin'[c] = LOW) =>
                  /\ \A d \in ChipSelects : pin[d] = HIGH
                  /\ pin'["EPD_DC"] = pin["EPD_DC"]
                  /\ bus' = bus
                  /\ Head(todo').op = "spi" ]_vars
    /\ [][ (pin'["EPD_DC"] # pin["EPD_DC"] /\ pin'["EPD_DC"] \in {LOW, HIGH}) =>
              /\ Asserted = {}
              /\ todo' # <<>>
              /\ IsSelectWrite(Head(todo'), LOW) ]_vars
    /\ [][ Len(bus') > Len(bus) =>
              /\ Len(bus') = Len(bus) + 1
              /\ bus'[Len(bus')].cs = Asserted
              /\ bus'[Len(bus')].dc = pin["EPD_DC"]
              /\ \E c \in ChipSelects :
                    Asserted = {c} /\ Head(todo') = digitalWrite(c, HIGH) ]_vars
    /\ [][ \A c \in ChipSelects :
              (pin[c] = LOW /\ pin'[c] # LOW) =>
                  /\ pin'[c] = HIGH
                  /\ bus' = bus
                  /\ bus # <<>> /\ bus[Len(bus)].cs = {c} ]_vars

\* A data byte has just been clocked to the Slave controller and its select
\* is still low.
C29_Witness ==
    /\ Asserted = {"EPD_CS_S"}
    /\ pin["EPD_DC"] = HIGH
    /\ todo # <<>>
    /\ Head(todo) = digitalWrite("EPD_CS_S", HIGH)
    /\ bus # <<>>
    /\ bus[Len(bus)] = Txn("EPD_CS_S", HIGH, bus[Len(bus)].b)

(***************************************************************************)
(* C30: the panel traffic of displayText does not depend on its arguments. *)
(* Whatever text, x and y are, the call performs init(), clear(),          *)
(* refresh(), sleep() in that order, every pixel byte it streams is 0xFF,  *)
(* and its bus traffic is one fixed sequence, so any two calls, whatever   *)
(* their arguments, produce identical traffic.                             *)
(***************************************************************************)
TextEvents ==
    << [ev |-> "call", f |-> "init"],
       [ev |-> "call", f |-> "reset"], [ev |-> "ret", f |-> "reset"],
       [ev |-> "ret", f |-> "init"],
       [ev |-> "call", f |-> "clear"],
       [ev |-> "call", f |-> "refresh"], [ev |-> "ret", f |-> "refresh"],
       [ev |-> "ret", f |-> "clear"],
       [ev |-> "call", f |-> "refresh"], [ev |-> "ret", f |-> "refresh"],
       [ev |-> "call", f |-> "sleep"], [ev |-> "ret", f |-> "sleep"],
       [ev |-> "ret", f |-> "displayText"] >>
TextTraffic == InitTraffic \o ClearLoad \o RefRefresh \o RefRefresh \o RefSleep
TextCalls == CallsOf("displayText")
TextArgs ==
    { <<"ERROR: No SD Card", 100, 500>>, <<"Connect to WiFi", 100, 400>>,
      <<"Connected!", 100, 400>> }

EventBefore(k) ==
    LET js == {j \in DOMAIN calls : calls[j].at < k}
    IN  IF js = {} THEN 0 ELSE MaxOf(js)
\* init() has returned before the byte at position k, and neither sleep()
\* nor begin() has returned between that return and the byte.
ConfiguredAt(k) ==
    \E r \in 1..EventBefore(k) :
        /\ IsRet(calls[r], "init")
        /\ \A j \in (r + 1)..EventBefore(k) :
              ~IsRet(calls[j], "sleep") /\ ~IsRet(calls[j], "begin")
LifecycleCommands == {CMD_START_TRANSMISSION, CMD_POWER_ON, CMD_REFRESH}

C31_LifecycleOrder ==
    /\ \A k \in DOMAIN bus :
          (bus[k].dc = LOW /\ bus[k].b \in LifecycleCommands) => ConfiguredAt(k)
    /\ (todo # <<>> /\ Next1.op = "spi") => pin["EPD_PWR"] = HIGH

(***************************************************************************)
(* C32: for any frame length n > 0, odd lengths and lengths other than a   *)
(* full frame included, displayBitmap sends the bytes with index           *)
(* 0 .. floor(n/2)-1 to Master and those with index floor(n/2) .. n-1 to   *)
(* Slave: n data bytes in all, every input byte exactly once and in index  *)
(* order, the Master stream followed by the Slave stream being the input   *)
(* buffer; for odd n Slave receives one byte more than Master.             *)
(***************************************************************************)
\* The traffic of the two load phases of the call at index i: from the
\* return of init() to the entry of refresh().
LoadTraffic(i) ==
    LET inner == Transitions(i, RetOf(i))
    IN  SubSeq(bus, inner[4].at + 1, inner[5].at)
DataTo(seg, c) ==
    LET sel == SelectSeq(seg, LAMBDA t : t.dc = HIGH /\ t.cs = {c})
    IN  [k \in 1..Len(sel) |-> sel[k].b]

C32_SplitCoversFrame ==
    \A i \in ValidBitmapCalls :
        RetOf(i) # 0 =>
            LET frame == calls[i].arg[1].bytes
                n == calls[i].arg[2]
                seg == LoadTraffic(i)
                master == DataTo(seg, "EPD_CS_M")
                slave == DataTo(seg, "EPD_CS_S")
            IN  /\ n = Len(frame)
                /\ master = SubSeq(frame, 1, n \div 2)
                /\ slave = SubSeq(frame, n \div 2 + 1, n)
                /\ master \o slave = frame
                /\ Len(master) + Len(slave) = n
                /\ n % 2 = 1 => Len(slave) = Len(master) + 1
                /\ seg = RefLoad("EPD_CS_M", master) \o RefLoad("EPD_CS_S", slave)

\* displayBitmap has returned from a call on a frame of odd length that is
\* not the length of a full frame.
C32_Witness ==
    \E i \in ValidBitmapCalls :
        /\ RetOf(i) # 0
        /\ calls[i].arg[2] % 2 = 1
        /\ calls[i].arg[2] > FrameSize + 1
        /\ DriverIdle

(***************************************************************************)
(* C33: once establishNetwork has returned, and for the rest of the boot   *)
(* cycle, wifi_configured is true exactly when the resolved role is        *)
(* Station, and exactly when access_point_active is false: the two flags   *)
(* are never both true and never both false.                               *)
(***************************************************************************)
C33_FlagsMirrorRole ==
    Resolved =>
        /\ wifi_configured <=> mode = NETWORK_MODE_STA
        /\ mode = NETWORK_MODE_STA <=> ~access_point_active
        /\ wifi_configured # access_point_active
        /\ mode \in {NETWORK_MODE_STA, NETWORK_MODE_AP}

\* The main loop runs in the AccessPoint role that a failed station attempt
\* fell back to.
C33_Witness ==
    /\ Resolved
    /\ pc = "loop"
    /\ staAttempts = 1
    /\ access_point_active
    /\ ~wifi_configured

(***************************************************************************)
(* C34: whenever control is in the main loop, the in-memory current_image  *)
(* equals the persisted current_img value (empty when the key is absent).  *)
(***************************************************************************)
LoopPcs == {"loop", "loop_http", "loop_served", "loop_refresh_img", "loop_end"}
PersistedImage == getString(prefs, "current_img", "")

C34_ImageInSync ==
    (pc \in LoopPcs \/ (pc \in ImgPcs /\ imgCaller # "setup")) =>
        current_image = PersistedImage

\* C34: the two values agree in every state of the main loop; they are read
\* from each other at boot and afterwards change only together, to the name
\* of the file just shown, in the step of displayImageFromSD that follows
\* the return of displayBitmap.
C34_WrittenTogether ==
    /\ []C34_ImageInSync
    /\ [][ (pc = "boot" /\ pc' # "boot") => current_image' = PersistedImage' ]_vars
    /\ [][ (pc' # "boot" /\ pc # "boot"
            /\ (current_image' # current_image \/ prefs.current_img # prefs'.current_img)) =>
              /\ pc = "img_save"
              /\ calls # <<>> /\ IsRet(calls[Len(calls)], "displayBitmap")
              /\ current_image' = img
              /\ prefs'.current_img = img ]_vars

\* The main loop runs with an image selected through /display: the name is
\* both in memory and persisted.
C34_Witness ==
    /\ pc = "loop"
    /\ current_image = "photo.bin"
    /\ prefs.current_img = "photo.bin"

(***************************************************************************)
(* C35: in the AccessPoint role the stored image is never displayed        *)
(* automatically.  Neither setup's boot-time display nor the scheduled     *)
(* refresh of the main loop calls displayImageFromSD, or prepares the      *)
(* panel for it, whether an image was saved before the boot or selected    *)
(* through /display afterwards; an automatic display happens only in the   *)
(* Station role and on a non-empty current_image.                          *)
(***************************************************************************)
AutomaticCallers == {"setup", "loop"}
AutomaticPcs == {"setup_auto_img", "loop_refresh_img"}
ImageCalls == CallsOf("displayImageFromSD")

C35_NoAutoDisplayInAP ==
    /\ (pc \in AutomaticPcs \/ (pc \in ImgPcs /\ imgCaller \in AutomaticCallers)) =>
          /\ mode = NETWORK_MODE_STA
          /\ wifi_configured
          /\ ~access_point_active
    /\ (pc \in ImgPcs /\ imgCaller \in AutomaticCallers) =>
          /\ img # ""
          /\ calls[LastCall("displayImageFromSD", Len(calls) + 1)].arg[3] = img
    /\ (Resolved /\ mode = NETWORK_MODE_AP) =>
          /\ pc \in ImgPcs => imgCaller = "handleDisplay"
          /\ pc \in {"setup_auto", "setup_done", "loop_end"} => ImageCalls = {}

\* Setup has completed in the AccessPoint role with a saved image and has
\* not displayed it.
C35_Witness ==
    /\ pc = "setup_done"
    /\ mode = NETWORK_MODE_AP
    /\ current_image # ""
    /\ ImageCalls = {}
    /\ BitmapCalls = {}

(***************************************************************************)
(* C36: a scheduled refresh sets last_refresh_time to the time at which it *)
(* fired whether displayImageFromSD succeeded or failed, so the next       *)
(* scheduled refresh, a retry of a failed one included, starts only when   *)
(* a full REFRESH_INTERVAL has elapsed since then; a manual display        *)
(* through /display never changes last_refresh_time.                       *)
(***************************************************************************)
C36_AfterScheduled ==
    (pc = "loop_end" /\ imgCaller = "loop" /\ ImageReturns # {}) =>
        /\ last_refresh_time = currentTime
        /\ ~RefreshDue(currentTime, last_refresh_time)

C36_RefreshTimeAdvances ==
    /\ []C36_AfterScheduled
    /\ [][ (pc = "img_ret" /\ imgCaller = "loop" /\ pc' # pc) =>
              /\ last_refresh_time' = currentTime
              /\ RefreshDue(currentTime, last_refresh_time) ]_vars
    /\ [][ (pc = "loop_served" /\ pc' = "loop_refresh_img") =>
              /\ ULSub(currentTime', last_refresh_time) >= REFRESH_INTERVAL
              /\ last_refresh_time' = last_refresh_time ]_vars
    /\ [][ (pc = "loop_http" \/ pc' = "loop_served"
            \/ (pc \in ImgPcs /\ imgCaller = "handleDisplay")) =>
              last_refresh_time' = last_refresh_time ]_vars

\* A scheduled refresh has failed and its time has been recorded all the
\* same.
C36_Witness ==
    /\ pc = "loop_end"
    /\ imgCaller = "loop"
    /\ ImageReturns # {}
    /\ ~imgResult
    /\ last_refresh_time = currentTime
    /\ currentTime # 0

(***************************************************************************)
(* C37: the elapsed-time tests are made on unsigned differences and stay   *)
(* correct when millis() wraps.  When d milliseconds (less than one full   *)
(* period of the counter) have passed since last_refresh_time the          *)
(* scheduled refresh fires exactly if d >= REFRESH_INTERVAL, and when d    *)
(* milliseconds have passed since waitUntilIdle read startTime its         *)
(* timeout test is true exactly if d exceeds the ceiling, whether or not   *)
(* the counter wrapped in between: nothing fires early and nothing is      *)
(* missed.                                                                 *)
(***************************************************************************)
Durations == 0..(ULongMod - 1)

C37_Tests ==
    /\ pc = "loop_served" =>
          \A d \in Durations :
              RefreshDue(ULAdd(last_refresh_time, d), last_refresh_time)
                  <=> d >= REFRESH_INTERVAL
    /\ pc = "loop_refresh_img" => ULSub(currentTime, last_refresh_time) >= REFRESH_INTERVAL
    /\ (pc = "loop_end" /\ wifi_configured /\ current_image # "") =>
          ULSub(currentTime, last_refresh_time) < REFRESH_INTERVAL
    /\ wpc = "loop" =>
          /\ \A d \in Durations :
                BusyTimedOut(ULSub(ULAdd(startTime, d), startTime))
                    <=> d > BusyTimeoutMs
          /\ elapsed = ULSub(clock, startTime)
          /\ elapsed <= BusyTimeoutMs

C37_WrapSafe ==
    /\ []C37_Tests
    /\ [][ (wpc = "loop" /\ busyState = LOW /\ wpc' # wpc) =>
              /\ elapsed' = elapsed + BusyPollMs
              /\ elapsed' > BusyTimeoutMs
              /\ wpc' = "settle" ]_vars
    /\ [][ (wpc = "loop" /\ wpc' = "loop") =>
              /\ elapsed' = elapsed + BusyPollMs
              /\ elapsed' <= BusyTimeoutMs ]_vars
    /\ [][ (wpc = "idle" /\ wpc' = "loop") => elapsed' = 0 ]_vars

\* waitUntilIdle has timed out on a wait during which millis() wrapped: the
\* counter now reads less than the start time.
C37_Witness ==
    /\ wpc = "settle"
    /\ busyState = LOW
    /\ clock < startTime
    /\ elapsed > BusyTimeoutMs


\* ---------------------------------------------------------------------
\* C38: for every sequence of upload events, a file opened at START has
\* been closed when the next upload's START opens a file into the shared
\* handle; chunks are written only when the open of this upload succeeded;
\* and the first answer to END is 200 exactly when the file was opened,
\* and 500 otherwise.
C38_UploadHandle ==
    /\ ~upStale
    /\ (upWritten > 0 => upOpened)
    /\ (upResponses # <<>> =>
           upResponses[1] = (IF upOpened THEN 200 ELSE 500))

\* The writes and the answers of an upload follow the outcome of its open,
\* whatever the previous upload left in the handle.
C38_WritesAndAnswers ==
    /\ upWritten = (IF upOpened THEN upChunks ELSE 0)
    /\ (upResponses # <<>> =>
           upResponses[1] = (IF upOpened THEN 200 ELSE 500))


\* ---------------------------------------------------------------------
\* C39: a /save-wifi request whose ssid parameter is present and empty is
\* accepted (stored with its password, answered 200, restart); and with an
\* empty ssid in the store, establishNetwork goes to the access point
\* without a station attempt, whatever password is stored, so that the
\* device then runs in the AccessPoint role with no attempt since boot.
EmptySsidStored == prefs.wifi_ssid = ""

C39_EmptySsidSaved ==
    (SaveWiFiServed /\ calls[Len(calls)].arg[1] /\ calls[Len(calls)].arg[2]
        /\ calls[Len(calls)].arg[3] = "") =>
        /\ pc = "restart"
        /\ httpStatus = 200
        /\ EmptySsidStored
        /\ prefs.wifi_pass = calls[Len(calls)].arg[4]

C39_EmptySsidResolved ==
    (EmptySsidStored /\ Resolved /\ pc # "restart") =>
        /\ mode = NETWORK_MODE_AP
        /\ access_point_active
        /\ ~wifi_configured
        /\ staAttempts = 0

C39_EmptySsidIsAbsent ==
    /\ [](C39_EmptySsidSaved /\ C39_EmptySsidResolved)
    /\ [][ (pc = "net_read" /\ EmptySsidStored) =>
              /\ pc' = "net_ap"
              /\ UNCHANGED <<staAttempts, wifiStatus, wifi_configured>> ]_vars

\* The main loop of a device that booted with an empty ssid and a
\* non-empty password in the store.
C39_Witness ==
    /\ pc = "loop"
    /\ EmptySsidStored
    /\ prefs.wifi_pass = "secret"
    /\ mode = NETWORK_MODE_AP
    /\ staAttempts = 0

====
